---------------------------- MODULE Spec2Model ----------------------------
(***************************************************************************)
(* Reminder scheduling and broadcast delivery of the Telegram bot.         *)
(*                                                                         *)
(* Two specifications share the variables of this module:                  *)
(*   SpecBroadcast  one broadcast_message run after another, each send     *)
(*                  answered by the delivery channel with any outcome;     *)
(*   SpecReminders  the reminder lifecycle (create, toggle, delete, fire,  *)
(*                  shutdown and startup), every operation run to its end. *)
(* Each specification leaves the variables of the other part unchanged.    *)
(***************************************************************************)
EXTENDS Integers, Sequences, FiniteSets, TLC

(***************************************************************************)
(* Bounds of the model.                                                    *)
(***************************************************************************)
NumChats == 2
MaxRetryAfter == 2
\* reminders ever inserted (ids 1..MaxReminders)
MaxReminders == 2
\* last instant of the clock of the reminder part
MaxTime == 4
\* instants per day at which the clock of the reminder part stops:
\* instant t is day t \div SlotsPerDay, slot t % SlotsPerDay of that day
SlotsPerDay == 2
MaxSent == 2

(***************************************************************************)
(* Program constants.                                                      *)
(***************************************************************************)
\* settings.broadcast_retry_count, default "3"
broadcast_retry_count == 3
\* settings.broadcast_retry_delay, default "2" seconds
broadcast_retry_delay == 2
\* Time in the broadcast part is counted in half seconds, so that the safety
\* margin of asyncio.sleep(exc.retry_after + 0.5) is one tick.
TicksPerSecond == 2
\* (target_weekday - today.weekday()) % 7; weekday 0 is Monday
DaysPerWeek == 7
\* settings.announcement_time, default "10:00": the second slot of a day
announcement_time == 1

VARIABLES
    \* ---- persistence store, chat side
    chats,            \* rows of table chats in ORDER BY last_seen_at DESC
    admins,           \* user ids of table admins
    approved_chats,   \* chat ids of table approved_chats
    \* ---- configuration read from the environment when the process starts
    settings_approved_chat_ids, \* settings.approved_chat_ids
    settings_announcement_days, \* settings.announcement_days
    \* ---- one broadcast_message run
    b_pc,             \* "idle", "iter", "send", "sleep", "done", "raised"
    b_ignore_inactive,\* the run's ignore_inactive argument
    b_pending,        \* rows the generator _eligible_chats still has to visit
    b_admin_ids,      \* admin_ids computed when the generator started
    b_approved,       \* approved_chats computed when the generator started
    b_chat,           \* chat_id of the chat the run is sending to (0: none)
    b_attempt,        \* the loop variable attempt
    b_wake,           \* instant at which the pending asyncio.sleep ends
    \* ---- observation of the run (history, not program state)
    elapsed,          \* ticks since the run took up the current chat
    resp,             \* outcomes of the physical sends to the current chat
    sent_at,          \* instant (elapsed) of each physical send to it
    outcome,          \* chat_id -> how the run left the chat
    lookups,          \* chat_id -> number of bot.get_chat calls in this run
    live_answer,      \* the chat the filter visited last and what get_chat answered
    \* ---- persistence store, reminder side
    reminders,        \* table reminders: id -> row, for the ids that exist
    last_rowid,       \* AUTOINCREMENT sequence of table reminders
    announcement_settings, \* the row of table announcement_settings
    \* ---- process and scheduler
    proc,             \* "stopped", "running" or "crashed" (main raised)
    jobs,             \* AsyncIOScheduler job store: job id -> job
    now,              \* current instant
    \* ---- observation (history, not program state)
    sent_count,       \* reminder id -> broadcast_message calls made for it
    restored,         \* the step just taken was main's restoration pass
    \* ---- a firing whose broadcast run is followed send by send
    firing,           \* id of the reminder whose _fire_reminder is running (0: none)
    channel_sends,    \* chat_id -> sends the delivery channel received in this firing
    send_failed,      \* some send of this firing was not answered with success
    \* ---- one evaluation of _next_occurrence and the job built on it
    occ,              \* its arguments, its result and the run times of the job
    \* ---- coroutines of the event loop, followed from await to await
    tasks,            \* slot -> the coroutine running in it and its locals
    late,             \* the clock has moved past the instant now (by less than a slot)
    polling,          \* dp.start_polling has been reached: Telegram callbacks arrive
    gate,             \* the slots waiting for the store's asyncio.Lock, first come first
    \* ---- broadcast runs side by side
    runs,             \* caller of broadcast_message -> where its run stands
    send_log,         \* the sends issued, in order: which run, which chat of its list
    \* ---- the store's asyncio.Lock
    db_locked,        \* Lock._locked
    db_waiters,       \* Lock._waiters: the callers suspended in acquire(), first come first
    db_woken,         \* the waiters whose future release() has completed
    db_ops            \* caller -> the store operation it has issued and where that stands

bvars == <<chats, admins, approved_chats, settings_approved_chat_ids, b_pc,
           b_ignore_inactive, b_pending, b_admin_ids, b_approved, b_chat,
           b_attempt, b_wake, elapsed, resp, sent_at, outcome, lookups,
           live_answer>>

rvars == <<reminders, last_rowid, announcement_settings, settings_announcement_days,
           proc, jobs, now,
           sent_count, restored>>

fvars == <<firing, channel_sends, send_failed>>

ovars == <<occ>>

tvars == <<tasks, late, polling, gate>>

\* what the specifications of whole operations leave alone
uvars == <<runs, send_log>>

gvars == <<db_locked, db_waiters, db_woken, db_ops>>

xvars == <<tvars, uvars, gvars>>

vars == <<bvars, rvars, fvars, ovars, xvars>>

ChatIds == 1..NumChats

(***************************************************************************)
(* Titles are sequences of characters.  None and "" are both the empty     *)
(* sequence: _sanitize_title maps both to "".                              *)
(***************************************************************************)
NoTitle == <<>>
TitleOps == <<"O", "p", "s">>
TitleMarked == <<"i", "n", "*", "a", "c", "t", "i", "v", "e", " ", "x">>
TitleUpper == <<"I", "N", "A", "C", "T", "I", "V", "E">>
Titles == {NoTitle, TitleOps, TitleMarked, TitleUpper}

LowerChars == <<"a", "c", "e", "i", "n", "p", "s", "t", "v", "x">>
UpperChars == <<"A", "C", "E", "I", "N", "P", "S", "T", "V", "X">>

\* str.upper() on one character
UpperChar(ch) ==
    IF \E i \in 1..Len(LowerChars) : LowerChars[i] = ch
    THEN UpperChars[CHOOSE i \in 1..Len(LowerChars) : LowerChars[i] = ch]
    ELSE ch

RECURSIVE RemoveStars(_)
\* title.replace("*", "")
RemoveStars(s) ==
    IF s = <<>> THEN <<>>
    ELSE IF Head(s) = "*" THEN RemoveStars(Tail(s))
    ELSE <<Head(s)>> \o RemoveStars(Tail(s))

RECURSIVE StripLeft(_)
StripLeft(s) ==
    IF s # <<>> /\ Head(s) = " " THEN StripLeft(Tail(s)) ELSE s

RECURSIVE StripRight(_)
StripRight(s) ==
    IF s # <<>> /\ s[Len(s)] = " " THEN StripRight(SubSeq(s, 1, Len(s) - 1)) ELSE s

\* The title stripped and upper-cased, its '*' characters kept.
sanitize_title_KeepStars(title) ==
    IF title = NoTitle THEN <<>>
    ELSE LET t == StripRight(StripLeft(title))
         IN  [i \in 1..Len(t) |-> UpperChar(t[i])]

\* _sanitize_title: "" for no title, else replace("*", "").strip().upper()
sanitize_title(title) ==
    IF title = NoTitle THEN <<>>
    ELSE LET t == StripRight(StripLeft(RemoveStars(title)))
         IN  [i \in 1..Len(t) |-> UpperChar(t[i])]

INACTIVE == <<"I", "N", "A", "C", "T", "I", "V", "E">>

\* Python's  needle in haystack  on strings
Contains(haystack, needle) ==
    \E k \in 0..(Len(haystack) - Len(needle)) :
        SubSeq(haystack, k + 1, k + Len(needle)) = needle

\* "INACTIVE" in _sanitize_title(title)
\* "INACTIVE" in _sanitize_title(title), worked out once for every title
MarkerOf == [t \in Titles |-> Contains(sanitize_title(t), INACTIVE)]

HasInactiveMarker(title) == MarkerOf[title]

(***************************************************************************)
(* Persistence store, chat side.                                           *)
(***************************************************************************)
ChatTypes == {"private", "group", "supergroup"}

\* settings.admin_ids (fixed at startup)
settings_admin_ids == {1}

\* Database.get_active_chats: WHERE is_active=1 ORDER BY last_seen_at DESC
get_active_chats(rows) == SelectSeq(rows, LAMBDA r : r.is_active)

\* Database.set_chat_active: UPDATE chats SET is_active=? WHERE chat_id=?
set_chat_active(rows, chat_id, is_active) ==
    [i \in 1..Len(rows) |->
        IF rows[i].chat_id = chat_id
        THEN [rows[i] EXCEPT !.is_active = is_active]
        ELSE rows[i]]

\* An upsert whose ON CONFLICT clause also takes is_active from the new row.
upsert_chat_Reactivates(rows, chat_id, chat_type, title) ==
    LET new == [chat_id |-> chat_id, type |-> chat_type, title |-> title,
                is_active |-> TRUE]
    IN  <<new>> \o SelectSeq(rows, LAMBDA r : r.chat_id # chat_id)

\* Database.upsert_chat: INSERT ... VALUES (?, ?, ?, 1, now) ON CONFLICT(chat_id)
\* DO UPDATE SET type, title, last_seen_at; the row becomes the one seen last
upsert_chat(rows, chat_id, chat_type, title) ==
    LET old == SelectSeq(rows, LAMBDA r : r.chat_id = chat_id)
        new == [chat_id |-> chat_id, type |-> chat_type, title |-> title,
                is_active |-> IF old = <<>> THEN TRUE ELSE old[1].is_active]
    IN  <<new>> \o SelectSeq(rows, LAMBDA r : r.chat_id # chat_id)

IsActiveChat(rows, chat_id) ==
    \E i \in 1..Len(rows) : rows[i].chat_id = chat_id /\ rows[i].is_active

(***************************************************************************)
(* Chat eligibility filter: the body of the loop of _eligible_chats for    *)
(* one row.  live is the answer of bot.get_chat: ok is FALSE when the call  *)
(* raises, else title is the live title.                                   *)
(***************************************************************************)
LiveAnswers == {[ok |-> FALSE, title |-> NoTitle]} \cup
               {[ok |-> TRUE, title |-> t] : t \in Titles}

NeedsLookup(chat, ignore_inactive, admin_ids, approved) ==
    /\ chat.chat_id \notin approved
    /\ ~(chat.type = "private" /\ chat.chat_id \in admin_ids)
    /\ ignore_inactive
    /\ chat.type \in {"group", "supergroup"}
    /\ ~HasInactiveMarker(chat.title)

\* The filter without the allow-list rule.
eligible_IgnoresApproved(chat, ignore_inactive, admin_ids, approved, live) ==
    IF chat.type = "private" /\ chat.chat_id \in admin_ids THEN FALSE
    ELSE IF ignore_inactive /\ chat.type \in {"group", "supergroup"}
         THEN IF HasInactiveMarker(chat.title) THEN FALSE
              ELSE IF live.ok /\ HasInactiveMarker(live.title) THEN FALSE
              ELSE TRUE
    ELSE TRUE

\* The filter without the admin rule.
eligible_IgnoresAdmins(chat, ignore_inactive, admin_ids, approved, live) ==
    IF chat.chat_id \in approved THEN FALSE
    ELSE IF ignore_inactive /\ chat.type \in {"group", "supergroup"}
         THEN IF HasInactiveMarker(chat.title) THEN FALSE
              ELSE IF live.ok /\ HasInactiveMarker(live.title) THEN FALSE
              ELSE TRUE
    ELSE TRUE

\* The filter skipping the chat when the live lookup raises.
eligible_FailClosed(chat, ignore_inactive, admin_ids, approved, live) ==
    IF chat.chat_id \in approved THEN FALSE
    ELSE IF chat.type = "private" /\ chat.chat_id \in admin_ids THEN FALSE
    ELSE IF ignore_inactive /\ chat.type \in {"group", "supergroup"}
         THEN IF HasInactiveMarker(chat.title) THEN FALSE
              ELSE IF ~live.ok THEN FALSE
              ELSE IF HasInactiveMarker(live.title) THEN FALSE
              ELSE TRUE
    ELSE TRUE

eligible(chat, ignore_inactive, admin_ids, approved, live) ==
    IF chat.chat_id \in approved THEN FALSE
    ELSE IF chat.type = "private" /\ chat.chat_id \in admin_ids THEN FALSE
    ELSE IF ignore_inactive /\ chat.type \in {"group", "supergroup"}
         THEN IF HasInactiveMarker(chat.title) THEN FALSE
              ELSE IF live.ok /\ HasInactiveMarker(live.title) THEN FALSE
              ELSE TRUE
    ELSE TRUE

(***************************************************************************)
(* Broadcast dispatcher.                                                   *)
(***************************************************************************)
RetryAfters == 1..MaxRetryAfter

\* What bot.send_message / bot.send_photo can answer.
Outcomes ==
    {[kind |-> k, retry_after |-> 0] : k \in {"ok", "Forbidden", "BadRequest", "Unknown"}}
    \cup {[kind |-> "RetryAfter", retry_after |-> r] : r \in RetryAfters}

\* Handler with the BadRequest clause treating the chat like a blocked one.
Handler_BadRequestAsForbidden(kind) ==
    CASE kind = "ok"         -> "break"
      [] kind = "Forbidden"  -> "mark_inactive"
      [] kind = "RetryAfter" -> "sleep_retry_after"
      [] kind = "BadRequest" -> "mark_inactive"
      [] OTHER               -> "sleep_retry_delay"

\* Handler without the final  except Exception  clause.
Handler_NoCatchAll(kind) ==
    CASE kind = "ok"         -> "break"
      [] kind = "Forbidden"  -> "mark_inactive"
      [] kind = "RetryAfter" -> "sleep_retry_after"
      [] kind = "BadRequest" -> "abandon"
      [] OTHER               -> "propagate"

\* Handler whose try block lacks the  break  after a send that succeeded: the
\* for loop goes on to its next iteration.
Handler_NoBreak(kind) ==
    CASE kind = "ok"         -> "sleep_retry_delay"
      [] kind = "Forbidden"  -> "mark_inactive"
      [] kind = "RetryAfter" -> "sleep_retry_after"
      [] kind = "BadRequest" -> "abandon"
      [] OTHER               -> "sleep_retry_delay"

\* The except clause of broadcast_message that takes the answer of a send.
Handler(kind) ==
    CASE kind = "ok"         -> "break"
      [] kind = "Forbidden"  -> "mark_inactive"
      [] kind = "RetryAfter" -> "sleep_retry_after"
      [] kind = "BadRequest" -> "abandon"
      [] OTHER               -> "sleep_retry_delay"

\* The sleep with the safety margin alone: asyncio.sleep(0.5).
RetryAfterSleep_MarginOnly(retry_after) == 1

\* asyncio.sleep(exc.retry_after + 0.5), in ticks
RetryAfterSleep(retry_after) == retry_after * TicksPerSecond + 1

\* asyncio.sleep(settings.broadcast_retry_delay), in ticks
RetryDelaySleep == broadcast_retry_delay * TicksPerSecond

\* The loop with one iteration too many: range(1, count + 2).
HasNextAttempt_OneMore(attempt) == attempt + 1 < broadcast_retry_count + 2

\* for attempt in range(1, settings.broadcast_retry_count + 1): is there a
\* next iteration after the one numbered attempt
HasNextAttempt(attempt) == attempt + 1 < broadcast_retry_count + 1

\* The attempt counter carried over from the chat before.
StartAttempt_Carried(previous) == IF previous = 0 THEN 1 ELSE previous

\* range(1, ...): the loop of every chat starts at attempt 1, whatever the
\* counter was when the chat before was left
StartAttempt(previous) == 1

\* The Forbidden clause without its store write.
OnForbidden_NoWrite(rows, chat_id) == rows

\* What the Forbidden clause writes to the store.
OnForbidden(rows, chat_id) == set_chat_active(rows, chat_id, FALSE)

NoOutcome == [c \in ChatIds |-> "none"]
NoLookups == [c \in ChatIds |-> 0]
\* no chat visited yet, or the chat visited last needed no lookup
NoAnswer == [chat_id |-> 0, ok |-> FALSE, title |-> NoTitle]

\* broadcast_message is called: the generator loads the active chats and the
\* admin and approved id sets (broadcast.py 24-27).
broadcast_message(ignore_inactive) ==
    /\ b_pc \in {"idle", "done"}
    /\ b_pc' = "iter"
    /\ b_ignore_inactive' = ignore_inactive
    /\ b_pending' = get_active_chats(chats)
    /\ b_admin_ids' = settings_admin_ids \cup admins
    /\ b_approved' = settings_approved_chat_ids \cup approved_chats
    /\ b_chat' = 0
    /\ b_attempt' = 0
    /\ b_wake' = 0
    /\ elapsed' = 0
    /\ resp' = <<>>
    /\ sent_at' = <<>>
    /\ outcome' = NoOutcome
    /\ lookups' = NoLookups
    /\ live_answer' = NoAnswer
    /\ UNCHANGED <<chats, admins, approved_chats, settings_approved_chat_ids>>

\* The generator is asked for the next chat: it visits one row, yields it or
\* skips it; with no row left the async for ends and the run returns.
eligible_chats_next ==
    /\ b_pc = "iter"
    /\ IF b_pending = <<>>
       THEN /\ b_pc' = "done"
            /\ UNCHANGED <<b_pending, b_chat, b_attempt, elapsed, resp, sent_at,
                           outcome, lookups, live_answer>>
       ELSE LET chat == Head(b_pending)
                looks == NeedsLookup(chat, b_ignore_inactive, b_admin_ids, b_approved)
            IN  \E live \in LiveAnswers :
                /\ b_pending' = Tail(b_pending)
                /\ lookups' = IF looks
                              THEN [lookups EXCEPT ![chat.chat_id] = @ + 1]
                              ELSE lookups
                /\ live_answer' = IF looks
                                  THEN [chat_id |-> chat.chat_id, ok |-> live.ok,
                                        title |-> live.title]
                                  ELSE NoAnswer
                /\ IF eligible(chat, b_ignore_inactive, b_admin_ids, b_approved, live)
                   THEN /\ b_pc' = "send"
                        /\ b_chat' = chat.chat_id
                        /\ b_attempt' = StartAttempt(b_attempt)
                        /\ elapsed' = 0
                        /\ resp' = <<>>
                        /\ sent_at' = <<>>
                        /\ outcome' = outcome
                   ELSE /\ b_pc' = "iter"
                        /\ outcome' = [outcome EXCEPT ![chat.chat_id] = "skipped"]
                        /\ UNCHANGED <<b_chat, b_attempt, elapsed, resp, sent_at>>
    /\ UNCHANGED <<chats, admins, approved_chats, settings_approved_chat_ids,
                   b_ignore_inactive, b_admin_ids, b_approved, b_wake>>

\* One physical send to the current chat and the clause that handles its answer.
send_attempt ==
    /\ b_pc = "send"
    /\ \E o \in Outcomes :
        LET h == Handler(o.kind) IN
        /\ resp' = Append(resp, o)
        /\ sent_at' = Append(sent_at, elapsed)
        /\ chats' = IF h = "mark_inactive" THEN OnForbidden(chats, b_chat) ELSE chats
        /\ b_pc' = CASE h \in {"break", "mark_inactive", "abandon"} -> "iter"
                     [] h \in {"sleep_retry_after", "sleep_retry_delay"} -> "sleep"
                     [] OTHER -> "raised"
        /\ b_wake' = CASE h = "sleep_retry_after" -> elapsed + RetryAfterSleep(o.retry_after)
                       [] h = "sleep_retry_delay" -> elapsed + RetryDelaySleep
                       [] OTHER -> b_wake
        /\ outcome' = CASE h = "break" -> [outcome EXCEPT ![b_chat] = "delivered"]
                        [] h = "mark_inactive" -> [outcome EXCEPT ![b_chat] = "forbidden"]
                        [] h = "abandon" -> [outcome EXCEPT ![b_chat] = "bad_request"]
                        [] OTHER -> outcome
    /\ UNCHANGED <<admins, approved_chats, settings_approved_chat_ids,
                   b_ignore_inactive, b_pending, b_admin_ids, b_approved, b_chat,
                   b_attempt, elapsed, lookups, live_answer>>

\* The sleep ends; the for loop takes its next iteration or is exhausted.
sleep_done ==
    /\ b_pc = "sleep"
    /\ elapsed' = b_wake
    /\ IF HasNextAttempt(b_attempt)
       THEN /\ b_attempt' = b_attempt + 1
            /\ b_pc' = "send"
            /\ outcome' = outcome
       ELSE /\ b_attempt' = b_attempt
            /\ b_pc' = "iter"
            /\ outcome' = [outcome EXCEPT ![b_chat] = "exhausted"]
    /\ UNCHANGED <<chats, admins, approved_chats, settings_approved_chat_ids,
                   b_ignore_inactive, b_pending, b_admin_ids, b_approved, b_chat,
                   b_wake, resp, sent_at, lookups, live_answer>>

(***************************************************************************)
(* Calendar of the reminder part.  Instant 0 is a Monday, first slot.      *)
(***************************************************************************)
Null == 0 - 1

WeekdayOf(t) == (t \div SlotsPerDay) % DaysPerWeek
SlotOf(t) == t % SlotsPerDay
SlotsPerWeek == DaysPerWeek * SlotsPerDay

(***************************************************************************)
(* Triggers.  A trigger is a record; NextFireTime is                       *)
(* trigger.get_next_fire_time(previous, now), Null when it will not fire.  *)
(***************************************************************************)
\* DateTrigger(run_date=run_dt)
DateTrigger(run_dt) ==
    [kind |-> "date", at |-> run_dt, days |-> {}, slot |-> Null, weeks |-> 0]

\* CronTrigger(day_of_week=..., hour=..., minute=...); days is the set the
\* day_of_week expression names, every weekday when it is not given
CronTrigger(days, slot) ==
    [kind |-> "cron", at |-> Null, days |-> days, slot |-> slot, weeks |-> 0]

\* IntervalTrigger(weeks=..., start_date=start)
IntervalTrigger(weeks, start) ==
    [kind |-> "interval", at |-> start, days |-> {}, slot |-> Null, weeks |-> weeks]

AllWeekdays == 0..(DaysPerWeek - 1)

\* A day_of_week expression is accepted when every value is a weekday 0..6;
\* otherwise the CronTrigger constructor raises ValueError.
CronDaysValid(days) == days # {} /\ days \subseteq AllWeekdays

\* Earliest instant >= from at the slot, on any day.
CronNext_AnyDay(days, slot, from) ==
    LET hits == {t \in from..(from + SlotsPerWeek) : SlotOf(t) = slot}
    IN  CHOOSE t \in hits : \A u \in hits : t <= u

\* Earliest instant >= from on one of the days at the slot.
CronNext(days, slot, from) ==
    LET hits == {t \in from..(from + SlotsPerWeek) :
                    WeekdayOf(t) \in days /\ SlotOf(t) = slot}
    IN  CHOOSE t \in hits : \A u \in hits : t <= u

NextFireTime(trigger, previous, at) ==
    CASE trigger.kind = "date" ->
            IF previous = Null THEN trigger.at ELSE Null
      [] trigger.kind = "cron" ->
            CronNext(trigger.days, trigger.slot,
                     IF previous = Null THEN at
                     ELSE IF previous + 1 > at THEN previous + 1 ELSE at)
      [] OTHER ->
            IF previous = Null THEN trigger.at
            ELSE previous + trigger.weeks * SlotsPerWeek

(***************************************************************************)
(* Job store of the scheduler.                                             *)
(***************************************************************************)
\* _job_id: f"reminder_{reminder_id}"
job_id(reminder_id) == <<"reminder", reminder_id>>

AnnouncementJob == <<"referral_announcements", 0>>

NoJobs == [j \in {} |-> 0]

HasJob(jbs, id) == job_id(id) \in DOMAIN jbs

\* job.remove() / scheduler.remove_job
remove_job(jbs, jid) == [j \in DOMAIN jbs \ {jid} |-> jbs[j]]

\* scheduler.add_job(..., id=jid, replace_existing=True) on a running
\* scheduler: the job's next run time is the trigger's first fire time.
add_job(jbs, jid, trigger, at) ==
    [j \in DOMAIN jbs \cup {jid} |->
        IF j = jid
        THEN [trigger |-> trigger, next_run_time |-> NextFireTime(trigger, Null, at)]
        ELSE jbs[j]]

\* unschedule_reminder emptying the job store: scheduler.remove_all_jobs()
unschedule_reminder_AllJobs(jbs, reminder_id) == NoJobs

\* unschedule_reminder leaving the job in place.
unschedule_reminder_Keep(jbs, reminder_id) == jbs

\* unschedule_reminder: remove the job when the scheduler has it
unschedule_reminder(jbs, reminder_id) ==
    IF job_id(reminder_id) \in DOMAIN jbs
    THEN remove_job(jbs, job_id(reminder_id))
    ELSE jbs

(***************************************************************************)
(* Persistence store, reminder side.                                       *)
(***************************************************************************)
NoReminders == [i \in {} |-> 0]

\* insert_reminder storing the row with active = 0.
insert_reminder_Inactive(rows, id, fields) ==
    [i \in DOMAIN rows \cup {id} |->
        IF i = id THEN [fields EXCEPT !.active = FALSE] ELSE rows[i]]

\* Database.insert_reminder: the row is stored with active = 1
insert_reminder(rows, id, fields) ==
    [i \in DOMAIN rows \cup {id} |->
        IF i = id THEN [fields EXCEPT !.active = TRUE] ELSE rows[i]]

\* Database.set_reminder_active: UPDATE reminders SET active=? WHERE id=?
set_reminder_active(rows, id, active) ==
    [i \in DOMAIN rows |-> IF i = id THEN [rows[i] EXCEPT !.active = active] ELSE rows[i]]

\* Database.delete_reminder: DELETE FROM reminders WHERE id=?
delete_reminder(rows, id) == [i \in DOMAIN rows \ {id} |-> rows[i]]

\* Database.get_active_reminders: the ids of the rows WHERE active=1
get_active_reminders(rows) == {i \in DOMAIN rows : rows[i].active}

Row(type, run_at, time_of_day, weekday, weekdays, every_n_weeks) ==
    [type |-> type, run_at |-> run_at, time_of_day |-> time_of_day,
     weekday |-> weekday, weekdays |-> weekdays, every_n_weeks |-> every_n_weeks,
     active |-> TRUE, ignore_inactive |-> TRUE]

SeqToSet(seq) == {seq[i] : i \in DOMAIN seq}

(***************************************************************************)
(* Recurrence engine.  A state of store and scheduler is a record          *)
(* [rows, jobs, raised]; raised says the operation ended with an exception.*)
(***************************************************************************)
St(rows, jbs, raised) == [rows |-> rows, jobs |-> jbs, raised |-> raised]

\* _next_occurrence keeping a candidate that is equal to the current instant.
next_occurrence_KeepsNow(target_weekday, target_slot, at) ==
    LET today == at \div SlotsPerDay
        days_ahead == (target_weekday - (today % DaysPerWeek)) % DaysPerWeek
        candidate == (today + days_ahead) * SlotsPerDay + target_slot
    IN  IF candidate < at THEN candidate + SlotsPerWeek ELSE candidate

\* _next_occurrence(target_weekday, target_time) evaluated at instant at
next_occurrence(target_weekday, target_slot, at) ==
    LET today == at \div SlotsPerDay
        days_ahead == (target_weekday - (today % DaysPerWeek)) % DaysPerWeek
        candidate == (today + days_ahead) * SlotsPerDay + target_slot
    IN  IF candidate <= at THEN candidate + SlotsPerWeek ELSE candidate

RunAtPassed_Never(run_dt, at) == FALSE

\* a registration that lets a one-shot time up to a day old through
RunAtPassed_ByADay(run_dt, at) == run_dt + SlotsPerDay < at

\* if run_dt < now: the one-shot time has passed
RunAtPassed(run_dt, at) == run_dt < at

\* a registration that goes on to split the missing time of day
without_time_Raises(rows, jbs) == St(rows, jbs, TRUE)

\* if not time_of_day: return
without_time(rows, jbs) == St(rows, jbs, FALSE)

\* schedule_reminder(reminder) for the row r with id id, at instant at
schedule_reminder(rows, jbs, id, r, at) ==
    LET jbs1 == unschedule_reminder(jbs, id)
        jid == job_id(id)
    IN  IF r.type = "once"
        THEN IF r.run_at = Null THEN St(rows, jbs1, FALSE)
             ELSE IF RunAtPassed(r.run_at, at)
                  THEN St(set_reminder_active(rows, id, FALSE), jbs1, FALSE)
                  ELSE St(rows, add_job(jbs1, jid, DateTrigger(r.run_at), at), FALSE)
        ELSE IF r.time_of_day = Null THEN without_time(rows, jbs1)
        ELSE CASE r.type = "daily" ->
                    St(rows, add_job(jbs1, jid, CronTrigger(AllWeekdays, r.time_of_day), at), FALSE)
               [] r.type = "weekly" ->
                    IF CronDaysValid({r.weekday})
                    THEN St(rows, add_job(jbs1, jid, CronTrigger({r.weekday}, r.time_of_day), at), FALSE)
                    ELSE St(rows, jbs1, TRUE)
               [] r.type = "biweekly" ->
                    St(rows,
                       add_job(jbs1, jid,
                               IntervalTrigger(r.every_n_weeks,
                                               next_occurrence(r.weekday, r.time_of_day, at)),
                               at),
                       FALSE)
               [] r.type = "twice" ->
                    IF r.weekdays = <<>> THEN St(rows, jbs1, FALSE)
                    ELSE IF CronDaysValid(SeqToSet(r.weekdays))
                    THEN St(rows, add_job(jbs1, jid, CronTrigger(SeqToSet(r.weekdays), r.time_of_day), at), FALSE)
                    ELSE St(rows, jbs1, TRUE)
               [] OTHER -> St(rows, jbs1, FALSE)

Min(S) == CHOOSE x \in S : \A y \in S : x <= y

RECURSIVE restore_loop(_, _, _, _, _)
\* for reminder in reminders: await schedule_reminder(reminder), over the
\* rows loaded before the loop, in id order; an exception ends the loop
restore_loop(loaded, todo, rows, jbs, at) ==
    IF todo = {} THEN St(rows, jbs, FALSE)
    ELSE LET id == Min(todo)
             st == schedule_reminder(rows, jbs, id, loaded[id], at)
         IN  IF st.raised THEN st
             ELSE restore_loop(loaded, todo \ {id}, st.rows, st.jobs, at)

\* restore_reminders()
restore_reminders(rows, jbs, at) ==
    restore_loop(rows, get_active_reminders(rows), rows, jbs, at)

\* _refresh_announcement_job(): replace the job by the stored schedule, or
\* by the configured one when nothing (or no day) is stored
\* _parse_announcement_days(None): "Monday,Thursday"
DefaultAnnouncementDays == <<0, 3>>

\* the time of day of the configuration paired with the stored days
refresh_announcement_job_ConfiguredTime(jbs, schedule, at) ==
    LET jbs1 == IF AnnouncementJob \in DOMAIN jbs THEN remove_job(jbs, AnnouncementJob) ELSE jbs
        stored == schedule.days # <<>>
        days == IF stored THEN schedule.days ELSE settings_announcement_days
    IN  IF days = <<>> \/ ~CronDaysValid(SeqToSet(days)) THEN jbs1
        ELSE add_job(jbs1, AnnouncementJob, CronTrigger(SeqToSet(days), announcement_time), at)

refresh_announcement_job(jbs, schedule, at) ==
    LET jbs1 == IF AnnouncementJob \in DOMAIN jbs THEN remove_job(jbs, AnnouncementJob) ELSE jbs
        stored == schedule.days # <<>>
        days == IF stored THEN schedule.days ELSE settings_announcement_days
        slot == IF stored THEN schedule.time_of_day ELSE announcement_time
    IN  IF days = <<>> THEN jbs1
        ELSE IF ~CronDaysValid(SeqToSet(days)) THEN jbs1
        ELSE add_job(jbs1, AnnouncementJob, CronTrigger(SeqToSet(days), slot), at)

\* _refresh_announcement_job raises: the days it would use are not all
\* weekdays 0..6 and the CronTrigger constructor raises ValueError
refresh_raises(schedule) ==
    LET days == IF schedule.days # <<>> THEN schedule.days ELSE settings_announcement_days
    IN  days # <<>> /\ ~CronDaysValid(SeqToSet(days))

\* get_announcement_schedule() when the table has no row
NoSchedule == [days |-> <<>>, time_of_day |-> Null]

\* no evaluation of _next_occurrence under observation
NoOcc ==
    [weekday |-> Null, slot |-> Null, at |-> Null, anchor |-> Null, runs |-> <<>>,
     base |-> 0]

(***************************************************************************)
(* Inputs of the create handlers.                                          *)
(***************************************************************************)
\* a date and time typed by the user: the middle of the horizon, ahead of
\* the clock or behind it when it is typed
RunAtInputs == {MaxTime \div 2}
\* a time of day HH:MM: the last slot of a day
TimeInputs == {SlotsPerDay - 1}
\* a weekday the bot parses from its name: always within 0..6
WeekdayInputs == {1}
\* day lists of the twice-weekly prompt, parsed from weekday names
TelegramDayInputs == {<<0, 1>>}
\* sorted({int(day) for day in raw_days}) of the web form: any integers
WebDayInputs == {<<0, 1>>, <<7>>}

ReminderIds == 1..MaxReminders

(***************************************************************************)
(* Operations of the reminder part, each run from its first line to its    *)
(* return (or to the exception that ends it).                              *)
(***************************************************************************)
\* _finalize_reminder: insert the row, read it back, schedule it
finalize_reminder(freq, run_at, time_of_day, weekday, weekdays) ==
    /\ proc = "running"
    /\ last_rowid < MaxReminders
    /\ LET id == last_rowid + 1
           rows1 == insert_reminder(reminders, id,
                        Row(freq, run_at, time_of_day, weekday, weekdays,
                            IF freq = "biweekly" THEN 2 ELSE 1))
           st == schedule_reminder(rows1, jobs, id, rows1[id], now)
       IN  /\ reminders' = st.rows
           /\ jobs' = st.jobs
           /\ last_rowid' = id
    /\ UNCHANGED <<announcement_settings, settings_announcement_days, proc, now, sent_count>>
    /\ restored' = FALSE

\* reminder_once_datetime: a parsed date and time ends the dialogue
reminder_once_datetime ==
    \E run_at \in RunAtInputs : finalize_reminder("once", run_at, Null, Null, <<>>)

\* reminder_daily_time
reminder_daily_time ==
    \E slot \in TimeInputs : finalize_reminder("daily", Null, slot, Null, <<>>)

\* reminder_weekly_time, for the frequencies weekly and biweekly
reminder_weekly_time ==
    \E freq \in {"weekly", "biweekly"}, weekday \in WeekdayInputs, slot \in TimeInputs :
        finalize_reminder(freq, Null, slot, weekday, <<>>)

\* reminder_twice_weekly
reminder_twice_weekly ==
    \E weekdays \in TelegramDayInputs, slot \in TimeInputs :
        finalize_reminder("twice", Null, slot, Null, weekdays)

\* handle_create_reminder: mode once with send_now only broadcasts; mode
\* once with run_at and mode schedule insert a row and schedule it.  The
\* days of mode schedule are not checked against 0..6.
handle_create_reminder ==
    /\ proc = "running"
    /\ \/ UNCHANGED <<reminders, jobs, last_rowid>>
       \/ /\ last_rowid < MaxReminders
          /\ \E fields \in
                 {Row("once", run_at, Null, Null, <<>>, 1) : run_at \in RunAtInputs}
                 \cup {Row("twice", Null, slot, Null, days, 1) :
                          slot \in TimeInputs, days \in WebDayInputs} :
                LET id == last_rowid + 1
                    rows1 == insert_reminder(reminders, id, fields)
                    st == schedule_reminder(rows1, jobs, id, rows1[id], now)
                IN  /\ reminders' = st.rows
                    /\ jobs' = st.jobs
                    /\ last_rowid' = id
    /\ UNCHANGED <<announcement_settings, settings_announcement_days, proc, now, sent_count>>
    /\ restored' = FALSE

\* reminders_toggle: the Telegram callback reminders:toggle:<id>
reminders_toggle(id) ==
    /\ proc = "running"
    /\ IF id \notin DOMAIN reminders
       THEN UNCHANGED <<reminders, jobs>>
       ELSE LET reminder == reminders[id]
                new_state == ~reminder.active
                rows1 == set_reminder_active(reminders, id, new_state)
                st == IF new_state
                      THEN schedule_reminder(rows1, jobs, id, reminder, now)
                      ELSE St(rows1, unschedule_reminder(jobs, id), FALSE)
            IN  /\ reminders' = st.rows
                /\ jobs' = st.jobs
    /\ UNCHANGED <<last_rowid, announcement_settings, settings_announcement_days, proc, now, sent_count>>
    /\ restored' = FALSE

\* handle_toggle_reminder: the web handler, active taken from the request
handle_toggle_reminder(id, active) ==
    /\ proc = "running"
    /\ LET rows1 == set_reminder_active(reminders, id, active)
           st == IF id \notin DOMAIN rows1 THEN St(rows1, jobs, FALSE)
                 ELSE IF active THEN schedule_reminder(rows1, jobs, id, rows1[id], now)
                 ELSE St(rows1, unschedule_reminder(jobs, id), FALSE)
       IN  /\ reminders' = st.rows
           /\ jobs' = st.jobs
    /\ UNCHANGED <<last_rowid, announcement_settings, settings_announcement_days, proc, now, sent_count>>
    /\ restored' = FALSE

\* reminders_delete: the Telegram callback reminders:delete:<id>
reminders_delete(id) ==
    /\ proc = "running"
    /\ reminders' = delete_reminder(reminders, id)
    /\ jobs' = unschedule_reminder(jobs, id)
    /\ UNCHANGED <<last_rowid, announcement_settings, settings_announcement_days, proc, now, sent_count>>
    /\ restored' = FALSE

\* handle_delete_reminder: the web handler
handle_delete_reminder(id) ==
    /\ proc = "running"
    /\ reminders' = delete_reminder(reminders, id)
    /\ jobs' = unschedule_reminder(jobs, id)
    /\ UNCHANGED <<last_rowid, announcement_settings, settings_announcement_days, proc, now, sent_count>>
    /\ restored' = FALSE

\* The scheduler finds job jid due: it hands the callback to the event loop
\* and moves the job to its next run time, or removes it when the trigger
\* has none.
job_after_run(jbs, jid, at) ==
    LET job == jbs[jid]
        next == NextFireTime(job.trigger, job.next_run_time, at)
    IN  IF next = Null THEN remove_job(jbs, jid)
        ELSE [jbs EXCEPT ![jid].next_run_time = next]

IsDue(jbs, jid, at) == jid \in DOMAIN jbs /\ jbs[jid].next_run_time <= at

\* Does _fire_reminder go on to broadcast_message: the row exists and is active
FireSends(rows, id) == id \in DOMAIN rows /\ rows[id].active

after_broadcast_NoDeactivate(rows, jbs, id) == St(rows, jbs, FALSE)

\* a callback that deactivates and unschedules whatever the type
after_broadcast_AllTypes(rows, jbs, id) ==
    St(set_reminder_active(rows, id, FALSE), unschedule_reminder(jbs, id), FALSE)

\* _fire_reminder after broadcast_message has returned
after_broadcast(rows, jbs, id) ==
    IF rows[id].type = "once"
    THEN St(set_reminder_active(rows, id, FALSE), unschedule_reminder(jbs, id), FALSE)
    ELSE St(rows, jbs, FALSE)

\* The job reminder_<id> fires and _fire_reminder(id) runs to its end.
fire_reminder(id) ==
    /\ proc = "running"
    /\ IsDue(jobs, job_id(id), now)
    /\ FireSends(reminders, id) => sent_count[id] < MaxSent
    /\ LET jbs1 == job_after_run(jobs, job_id(id), now)
           sends == FireSends(reminders, id)
           st == IF sends THEN after_broadcast(reminders, jbs1, id)
                 ELSE St(reminders, jbs1, FALSE)
       IN  /\ reminders' = st.rows
           /\ jobs' = st.jobs
           /\ sent_count' = IF sends THEN [sent_count EXCEPT ![id] = @ + 1] ELSE sent_count
    /\ UNCHANGED <<last_rowid, announcement_settings, settings_announcement_days, proc, now>>
    /\ restored' = FALSE

\* The job referral_announcements fires: send_scheduled_announcement
\* broadcasts and touches neither the reminders nor the jobs.
send_scheduled_announcement ==
    /\ proc = "running"
    /\ IsDue(jobs, AnnouncementJob, now)
    /\ jobs' = job_after_run(jobs, AnnouncementJob, now)
    /\ UNCHANGED <<reminders, last_rowid, announcement_settings, settings_announcement_days, proc, now, sent_count>>
    /\ restored' = FALSE

\* Time passes.  A running scheduler wakes at every run time, so the clock
\* does not move while a job is due.
tick ==
    /\ now < MaxTime
    /\ proc = "running" => \A jid \in DOMAIN jobs : ~IsDue(jobs, jid, now)
    /\ now' = now + 1
    /\ UNCHANGED <<reminders, last_rowid, announcement_settings, settings_announcement_days, proc, jobs, sent_count>>
    /\ restored' = FALSE

\* The process ends: the scheduler and its jobs are gone, the store stays.
shutdown ==
    /\ proc = "running"
    /\ proc' = "stopped"
    /\ jobs' = NoJobs
    /\ UNCHANGED <<reminders, last_rowid, announcement_settings, settings_announcement_days, now, sent_count>>
    /\ restored' = FALSE

\* main(): a new scheduler, setup_announcements, scheduler.start(),
\* restore_reminders().  An exception of setup_announcements or of
\* restore_reminders leaves main.
\* restored records that the step just taken was this restoration pass.
main ==
    /\ proc \in {"stopped", "crashed"}
    /\ LET jbs1 == refresh_announcement_job(NoJobs, announcement_settings, now)
           st == restore_reminders(reminders, jbs1, now)
           raised == st.raised \/ refresh_raises(announcement_settings)
       IN  /\ reminders' = IF refresh_raises(announcement_settings) THEN reminders ELSE st.rows
           /\ jobs' = IF raised THEN NoJobs ELSE st.jobs
           /\ proc' = IF raised THEN "crashed" ELSE "running"
    /\ UNCHANGED <<last_rowid, announcement_settings, settings_announcement_days, now, sent_count>>
    /\ restored' = TRUE

InitReminders ==
    /\ settings_announcement_days = DefaultAnnouncementDays
    /\ reminders = NoReminders
    /\ last_rowid = 0
    /\ announcement_settings = NoSchedule
    /\ proc = "running"
    /\ now = 0
    /\ jobs = refresh_announcement_job(NoJobs, NoSchedule, 0)
    /\ sent_count = [i \in ReminderIds |-> 0]
    /\ restored = FALSE

(***************************************************************************)
(* Specifications.                                                         *)
(***************************************************************************)
NoSends == [c \in ChatIds |-> 0]

\* no coroutine is followed step by step
InitNoTasks ==
    /\ db_locked = FALSE
    /\ db_waiters = <<>>
    /\ db_woken = {}
    /\ db_ops = <<>>
    /\ tasks = <<>>
    /\ gate = <<>>
    /\ runs = <<>>
    /\ send_log = <<>>
    /\ late = FALSE
    /\ polling = TRUE

\* no job callback is running
InitFiring ==
    /\ firing = 0
    /\ channel_sends = NoSends
    /\ send_failed = FALSE

\* The chats table when the process starts serving: every chat known and
\* active; private chats, plain groups and marked supergroups follow each
\* other in the table, starting with any of the three.
ChatKinds == <<[type |-> "private", title |-> NoTitle],
               [type |-> "group", title |-> TitleOps],
               [type |-> "supergroup", title |-> TitleMarked]>>

ChatRow(c, kind) ==
    [chat_id |-> c, type |-> kind.type, title |-> kind.title, is_active |-> TRUE]

\* Who is excluded by id: nobody beyond settings.admin_ids, or the last
\* chat, as a stored admin, a stored approved chat or a configured one.
IdSets ==
    {[admins |-> {}, approved_chats |-> {}, settings |-> {}],
     [admins |-> {NumChats}, approved_chats |-> {}, settings |-> {}],
     [admins |-> {}, approved_chats |-> {NumChats}, settings |-> {}],
     [admins |-> {}, approved_chats |-> {}, settings |-> {NumChats}]}

InitChats ==
    /\ \E first \in 0..(Len(ChatKinds) - 1) :
          chats = [c \in ChatIds |-> ChatRow(c, ChatKinds[((c + first) % Len(ChatKinds)) + 1])]
    /\ \E ids \in IdSets :
          /\ admins = ids.admins
          /\ approved_chats = ids.approved_chats
          /\ settings_approved_chat_ids = ids.settings

InitBroadcast ==
    /\ InitReminders
    /\ InitChats
    /\ live_answer = NoAnswer
    /\ InitFiring
    /\ InitNoTasks
    /\ occ = NoOcc
    /\ b_pc = "idle"
    /\ b_ignore_inactive = TRUE
    /\ b_pending = <<>>
    /\ b_admin_ids = {}
    /\ b_approved = {}
    /\ b_chat = 0
    /\ b_attempt = 0
    /\ b_wake = 0
    /\ elapsed = 0
    /\ resp = <<>>
    /\ sent_at = <<>>
    /\ outcome = NoOutcome
    /\ lookups = NoLookups

NextBroadcast ==
    \/ (\E ignore_inactive \in BOOLEAN : broadcast_message(ignore_inactive)) /\ UNCHANGED <<rvars, fvars, ovars, xvars>>
    \/ eligible_chats_next /\ UNCHANGED <<rvars, fvars, ovars, xvars>>
    \/ send_attempt /\ UNCHANGED <<rvars, fvars, ovars, xvars>>
    \/ sleep_done /\ UNCHANGED <<rvars, fvars, ovars, xvars>>

SpecBroadcast == InitBroadcast /\ [][NextBroadcast]_vars

(***************************************************************************)
(* Chat tracking.  Every message and callback query passes through         *)
(* ChatTrackingMiddleware, which upserts the chat it came from; a          *)
(* broadcast run is suspended in its sends and sleeps meanwhile.           *)
(***************************************************************************)
\* ChatTrackingMiddleware.__call__ for an event from chat c
ChatTrackingMiddleware ==
    /\ \E c \in ChatIds, kind \in {ChatKinds[i] : i \in DOMAIN ChatKinds} :
          chats' = upsert_chat(chats, c, kind.type, kind.title)
    /\ UNCHANGED <<admins, approved_chats, settings_approved_chat_ids, b_pc,
                   b_ignore_inactive, b_pending, b_admin_ids, b_approved, b_chat,
                   b_attempt, b_wake, elapsed, resp, sent_at, outcome, lookups,
                   live_answer>>

NextTracking ==
    \/ (\E ignore_inactive \in BOOLEAN : broadcast_message(ignore_inactive)) /\ UNCHANGED <<rvars, fvars, ovars, xvars>>
    \/ eligible_chats_next /\ UNCHANGED <<rvars, fvars, ovars, xvars>>
    \/ send_attempt /\ UNCHANGED <<rvars, fvars, ovars, xvars>>
    \/ sleep_done /\ UNCHANGED <<rvars, fvars, ovars, xvars>>
    \/ ChatTrackingMiddleware /\ UNCHANGED <<rvars, fvars, ovars, xvars>>

SpecTracking == InitBroadcast /\ [][NextTracking]_vars

\* The reminder part leaves the chats and the dispatcher alone: a firing
\* counts the broadcast_message call and the run itself is SpecBroadcast's.
InitLifecycle ==
    /\ InitReminders
    /\ chats = [c \in ChatIds |-> ChatRow(c, ChatKinds[1])]
    /\ admins = {}
    /\ approved_chats = {}
    /\ settings_approved_chat_ids = {}
    /\ live_answer = NoAnswer
    /\ InitFiring
    /\ InitNoTasks
    /\ occ = NoOcc
    /\ b_pc = "idle"
    /\ b_ignore_inactive = TRUE
    /\ b_pending = <<>>
    /\ b_admin_ids = {}
    /\ b_approved = {}
    /\ b_chat = 0
    /\ b_attempt = 0
    /\ b_wake = 0
    /\ elapsed = 0
    /\ resp = <<>>
    /\ sent_at = <<>>
    /\ outcome = NoOutcome
    /\ lookups = NoLookups

NextReminders ==
    \/ reminder_once_datetime /\ UNCHANGED <<bvars, fvars, ovars, xvars>>
    \/ reminder_daily_time /\ UNCHANGED <<bvars, fvars, ovars, xvars>>
    \/ reminder_weekly_time /\ UNCHANGED <<bvars, fvars, ovars, xvars>>
    \/ reminder_twice_weekly /\ UNCHANGED <<bvars, fvars, ovars, xvars>>
    \/ handle_create_reminder /\ UNCHANGED <<bvars, fvars, ovars, xvars>>
    \/ (\E id \in ReminderIds : reminders_toggle(id)) /\ UNCHANGED <<bvars, fvars, ovars, xvars>>
    \/ (\E id \in ReminderIds, active \in BOOLEAN : handle_toggle_reminder(id, active))
           /\ UNCHANGED <<bvars, fvars, ovars, xvars>>
    \/ (\E id \in ReminderIds : reminders_delete(id)) /\ UNCHANGED <<bvars, fvars, ovars, xvars>>
    \/ (\E id \in ReminderIds : handle_delete_reminder(id)) /\ UNCHANGED <<bvars, fvars, ovars, xvars>>
    \/ (\E id \in ReminderIds : fire_reminder(id)) /\ UNCHANGED <<bvars, fvars, ovars, xvars>>
    \/ send_scheduled_announcement /\ UNCHANGED <<bvars, fvars, ovars, xvars>>
    \/ tick /\ UNCHANGED <<bvars, fvars, ovars, xvars>>
    \/ shutdown /\ UNCHANGED <<bvars, fvars, ovars, xvars>>
    \/ main /\ UNCHANGED <<bvars, fvars, ovars, xvars>>

SpecReminders == InitLifecycle /\ [][NextReminders]_vars

(***************************************************************************)
(* A firing from the job to the last send.  The scheduler finds a job due, *)
(* the callback starts broadcast_message, the run goes on send by send,    *)
(* and the callback finishes after the run has returned.  One callback     *)
(* runs at a time and a run is over before the next instant.               *)
(***************************************************************************)
\* the run of send_scheduled_announcement, as a value of firing
AnnouncementRun == MaxReminders + 1

\* Monday,Thursday
DeliveryDayInputs == {<<0, 3>>}
\* 09:00, the first time of day
DeliveryTimeInputs == {0}

\* Thursday 09:00 and the instant after it
DeliveryHorizon == 3 * SlotsPerDay + 1

\* the ignore_inactive argument of the broadcast_message call of
\* _fire_reminder: the call does not pass it, so it is the default
FireIgnoreInactive(reminder) == TRUE

\* reminder_twice_weekly with the text "Monday,Thursday 09:00"
create_twice ==
    /\ firing = 0
    /\ reminders = NoReminders
    /\ \E weekdays \in DeliveryDayInputs, slot \in DeliveryTimeInputs :
          finalize_reminder("twice", Null, slot, Null, weekdays)

\* the job reminder_<id> is due: _fire_reminder(id) up to and including
\* the call of broadcast_message
fire_begin(id) ==
    /\ proc = "running"
    /\ firing = 0
    /\ IsDue(jobs, job_id(id), now)
    /\ jobs' = job_after_run(jobs, job_id(id), now)
    /\ IF FireSends(reminders, id)
       THEN /\ broadcast_message(FireIgnoreInactive(reminders[id]))
            /\ firing' = id
            /\ sent_count' = [sent_count EXCEPT ![id] = @ + 1]
       ELSE /\ UNCHANGED bvars
            /\ firing' = 0
            /\ sent_count' = sent_count
    /\ channel_sends' = NoSends
    /\ send_failed' = FALSE
    /\ UNCHANGED <<reminders, last_rowid, announcement_settings, settings_announcement_days, proc, now>>
    /\ restored' = FALSE

\* the job referral_announcements is due: send_scheduled_announcement up
\* to and including the call of broadcast_message(text, bot)
announcement_begin ==
    /\ proc = "running"
    /\ firing = 0
    /\ IsDue(jobs, AnnouncementJob, now)
    /\ jobs' = job_after_run(jobs, AnnouncementJob, now)
    /\ broadcast_message(TRUE)
    /\ firing' = AnnouncementRun
    /\ channel_sends' = NoSends
    /\ send_failed' = FALSE
    /\ UNCHANGED <<reminders, last_rowid, announcement_settings, settings_announcement_days, proc, now, sent_count>>
    /\ restored' = FALSE

\* one send of the run, seen from the delivery channel
send_counted ==
    /\ send_attempt
    /\ channel_sends' = [channel_sends EXCEPT ![b_chat] = @ + 1]
    /\ send_failed' = (send_failed \/ resp'[Len(resp')].kind # "ok")
    /\ UNCHANGED firing

\* broadcast_message has returned: the rest of the callback.  The locals
\* of the run are gone.
fire_end ==
    /\ firing # 0
    /\ b_pc = "done"
    /\ LET st == IF firing \in DOMAIN reminders
                 THEN after_broadcast(reminders, jobs, firing)
                 ELSE St(reminders, jobs, FALSE)
       IN  /\ reminders' = st.rows
           /\ jobs' = st.jobs
    /\ firing' = 0
    /\ channel_sends' = NoSends
    /\ send_failed' = FALSE
    /\ b_pc' = "idle"
    /\ b_ignore_inactive' = TRUE
    /\ b_pending' = <<>>
    /\ b_admin_ids' = {}
    /\ b_approved' = {}
    /\ b_chat' = 0
    /\ b_attempt' = 0
    /\ b_wake' = 0
    /\ elapsed' = 0
    /\ resp' = <<>>
    /\ sent_at' = <<>>
    /\ outcome' = NoOutcome
    /\ lookups' = NoLookups
    /\ live_answer' = NoAnswer
    /\ UNCHANGED <<chats, admins, approved_chats, settings_approved_chat_ids,
                   last_rowid, announcement_settings, settings_announcement_days, proc, now, sent_count>>
    /\ restored' = FALSE

\* Time passes while no callback runs and no job is due.
tick_idle ==
    /\ firing = 0
    /\ now < DeliveryHorizon
    /\ \A jid \in DOMAIN jobs : ~IsDue(jobs, jid, now)
    /\ now' = now + 1
    /\ UNCHANGED <<reminders, last_rowid, announcement_settings, settings_announcement_days, proc, jobs, sent_count>>
    /\ restored' = FALSE

\* The table reminders main() finds: empty, or the Monday,Thursday 09:00
\* reminder stored with ignore_inactive = 0 (Database.insert_reminder
\* takes the flag; no handler of the bot passes it).
StoredReminders ==
    {NoReminders} \cup
    {insert_reminder(NoReminders, 1,
         [Row("twice", Null, slot, Null, weekdays, 1) EXCEPT !.ignore_inactive = FALSE]) :
       weekdays \in DeliveryDayInputs, slot \in DeliveryTimeInputs}

\* main() has just started the scheduler and restored the reminders on
\* a Monday at 09:00
InitDelivery ==
    /\ InitChats
    /\ InitFiring
    /\ InitNoTasks
    /\ occ = NoOcc
    /\ live_answer = NoAnswer
    /\ b_pc = "idle"
    /\ b_ignore_inactive = TRUE
    /\ b_pending = <<>>
    /\ b_admin_ids = {}
    /\ b_approved = {}
    /\ b_chat = 0
    /\ b_attempt = 0
    /\ b_wake = 0
    /\ elapsed = 0
    /\ resp = <<>>
    /\ sent_at = <<>>
    /\ outcome = NoOutcome
    /\ lookups = NoLookups
    /\ settings_announcement_days = DefaultAnnouncementDays
    /\ \E stored \in StoredReminders :
          /\ reminders = stored
          /\ last_rowid = Cardinality(DOMAIN stored)
          /\ jobs = restore_reminders(stored,
                        refresh_announcement_job(NoJobs, NoSchedule, 0), 0).jobs
    /\ announcement_settings = NoSchedule
    /\ proc = "running"
    /\ now = 0
    /\ sent_count = [i \in ReminderIds |-> 0]
    /\ restored = FALSE

NextDelivery ==
    \/ create_twice /\ UNCHANGED <<bvars, fvars, ovars, xvars>>
    \/ (\E id \in ReminderIds : fire_begin(id)) /\ UNCHANGED <<ovars, xvars>>
    \/ announcement_begin /\ UNCHANGED <<ovars, xvars>>
    \/ eligible_chats_next /\ UNCHANGED <<rvars, fvars, ovars, xvars>>
    \/ send_counted /\ UNCHANGED <<rvars, ovars, xvars>>
    \/ sleep_done /\ UNCHANGED <<rvars, fvars, ovars, xvars>>
    \/ fire_end /\ UNCHANGED <<ovars, xvars>>
    \/ tick_idle /\ UNCHANGED <<bvars, fvars, ovars, xvars>>

SpecDelivery == InitDelivery /\ [][NextDelivery]_vars

(***************************************************************************)
(* The biweekly anchor.  _next_occurrence is applied to every weekday and  *)
(* time of day at every instant of two weeks, and the interval trigger     *)
(* schedule_reminder builds on the anchor is run for MaxRuns firings.      *)
(***************************************************************************)
MaxRuns == 3

OccInstants == 0..(2 * SlotsPerWeek - 1)

\* the dispatcher at rest and no chat excluded by a stored id
InitDispatcherIdle ==
    /\ chats = [c \in ChatIds |-> ChatRow(c, ChatKinds[1])]
    /\ admins = {}
    /\ approved_chats = {}
    /\ settings_approved_chat_ids = {}
    /\ live_answer = NoAnswer
    /\ b_pc = "idle"
    /\ b_ignore_inactive = TRUE
    /\ b_pending = <<>>
    /\ b_admin_ids = {}
    /\ b_approved = {}
    /\ b_chat = 0
    /\ b_attempt = 0
    /\ b_wake = 0
    /\ elapsed = 0
    /\ resp = <<>>
    /\ sent_at = <<>>
    /\ outcome = NoOutcome
    /\ lookups = NoLookups

\* the job schedule_reminder registers for a biweekly reminder of the
\* weekday and time of day of o, when it is called at the instant o.at
BiweeklyJob(o) ==
    LET rows1 == insert_reminder(NoReminders, 1,
                     Row("biweekly", Null, o.slot, o.weekday, <<>>, 2))
    IN  schedule_reminder(rows1, NoJobs, 1, rows1[1], o.at).jobs[job_id(1)]

InitOccurrence ==
    /\ InitReminders
    /\ InitDispatcherIdle
    /\ InitFiring
    /\ InitNoTasks
    /\ \E weekday \in AllWeekdays, slot \in 0..(SlotsPerDay - 1), at \in OccInstants :
          occ = [weekday |-> weekday, slot |-> slot, at |-> at,
                 anchor |-> Null, runs |-> <<>>, base |-> 0]

\* start = _next_occurrence(day, time(hour=hours, minute=minutes))
next_occurrence_call ==
    /\ occ.weekday # Null
    /\ occ.anchor = Null
    /\ occ' = [occ EXCEPT !.anchor = next_occurrence(occ.weekday, occ.slot, occ.at)]

\* the interval trigger of the job is asked for its next fire time, the
\* first time with no previous one, and the job runs at that instant
\* (occ.base is the number of runs made by the jobs registered before)
interval_fire ==
    /\ occ.anchor # Null
    /\ Len(occ.runs) < MaxRuns
    /\ LET previous == IF Len(occ.runs) = occ.base THEN Null ELSE occ.runs[Len(occ.runs)]
           next == NextFireTime(BiweeklyJob(occ).trigger, previous,
                                IF previous = Null THEN occ.at ELSE previous)
       IN  occ' = [occ EXCEPT !.runs = Append(@, next)]

NextOccurrence ==
    \/ next_occurrence_call /\ UNCHANGED <<bvars, rvars, fvars, xvars>>
    \/ interval_fire /\ UNCHANGED <<bvars, rvars, fvars, xvars>>

SpecOccurrence == InitOccurrence /\ [][NextOccurrence]_vars

(***************************************************************************)
(* The biweekly job registered anew.  The store keeps the weekday, the     *)
(* time of day and every_n_weeks of a biweekly reminder, and neither the   *)
(* start date of its job nor its last run; restore_reminders after a       *)
(* restart and a toggle that enables the reminder call schedule_reminder   *)
(* with the stored row, at the instant they run.                           *)
(***************************************************************************)
\* schedule_reminder is called again after the job has run, at an instant
\* from its last run on and before its next one: the job is replaced
schedule_reminder_again ==
    /\ occ.anchor # Null
    /\ Len(occ.runs) > occ.base
    /\ LET last == occ.runs[Len(occ.runs)]
           next == NextFireTime(BiweeklyJob(occ).trigger, last, last)
       IN  \E at \in last..(next - 1) :
              occ' = [occ EXCEPT !.at = at,
                                 !.anchor = next_occurrence(occ.weekday, occ.slot, at),
                                 !.base = Len(occ.runs)]

NextRebuild ==
    \/ next_occurrence_call /\ UNCHANGED <<bvars, rvars, fvars, xvars>>
    \/ interval_fire /\ UNCHANGED <<bvars, rvars, fvars, xvars>>
    \/ schedule_reminder_again /\ UNCHANGED <<bvars, rvars, fvars, xvars>>

SpecRebuild == InitOccurrence /\ [][NextRebuild]_vars

(***************************************************************************)
(* The operations as coroutines.  A coroutine runs without interruption    *)
(* from one suspension to the next; it is suspended while the aiosqlite    *)
(* thread executes a store operation and while broadcast_message runs.     *)
(* unschedule_reminder and the part of schedule_reminder that calls        *)
(* add_job contain no suspension.  Every store operation runs under one   *)
(* asyncio.Lock, which serves its waiters in the order they arrived and is *)
(* released when the task resumes; a step of a task is therefore one store *)
(* operation together with the code from the task's resumption up to the   *)
(* next store operation it submits.                                        *)
(***************************************************************************)
MaxTasks == 2

\* the last instant the clock of the coroutines reaches
MaxClock == 2

\* the number of reminders the store comes to hold
MaxStored == 1

\* the ids a request can name: those the store has handed out
KnownIds == 1..last_rowid

TaskSlots == 1..MaxTasks

\* db.get_reminder returns None
NoRow == [type |-> "none", active |-> FALSE]

NoTask ==
    [op |-> "none", id |-> 0, pc |-> "done", r |-> NoRow, active |-> FALSE,
     loaded |-> NoReminders, todo |-> {}, schedule |-> NoSchedule]

Task(op, id, pc) == [NoTask EXCEPT !.op = op, !.id = id, !.pc = pc]

\* Database.get_reminder
get_reminder(rows, id) == IF id \in DOMAIN rows THEN rows[id] ELSE NoRow

\* datetime.now() read by a task, rounded up to an instant: an instant
\* that has begun and is not exactly now counts as the next one
Clock == IF late THEN now + 1 ELSE now

FreeSlots == {t \in TaskSlots : tasks[t].op = "none"}

\* the coroutine in slot t is at pc
At(t, pc) == tasks[t].op # "none" /\ tasks[t].pc = pc

Quiescent == \A t \in TaskSlots : tasks[t].op = "none"

\* the tasks waiting for the store's lock, in the order they arrived, are
\* gate; the first of them is the one whose store operation runs
Holds(t) == gate # <<>> /\ Head(gate) = t

\* a coroutine of op starts and reaches its first store operation
start_task(task) ==
    /\ proc = "running"
    /\ FreeSlots # {}
    /\ tasks' = [tasks EXCEPT ![Min(FreeSlots)] = task]
    /\ gate' = Append(gate, Min(FreeSlots))

\* the task in slot t leaves the lock and goes on as next: it has returned,
\* or it is inside broadcast_message, or it waits for the lock again
Continue(t, next) ==
    /\ tasks' = [tasks EXCEPT ![t] = next]
    /\ gate' = IF next.op = "none" \/ next.pc = "broadcast"
               THEN Tail(gate)
               ELSE Append(Tail(gate), t)

\* the update reminders_toggle, handle_toggle_reminder, ... arrive
telegram_callbacks ==
    /\ polling
    /\ \E id \in KnownIds :
          \/ start_task(Task("reminders_toggle", id, "get"))
          \/ start_task(Task("reminders_delete", id, "del"))
    /\ UNCHANGED <<rvars, late, polling>>

\* the rows the web form creates here: mode schedule, days within 0..6
WebCreateInputs ==
    {Row("twice", Null, slot, Null, <<0, 1>>, 1) : slot \in TimeInputs}

web_requests ==
    /\ \/ \E id \in KnownIds :
             \/ \E active \in BOOLEAN :
                   start_task([Task("handle_toggle_reminder", id, "set") EXCEPT !.active = active])
             \/ start_task(Task("handle_delete_reminder", id, "del"))
       \/ \E fields \in WebCreateInputs :
             start_task([Task("handle_create_reminder", 0, "insert") EXCEPT !.r = fields])
    /\ UNCHANGED <<rvars, late, polling>>

\* the schedules the announcement form is given here: one day, first time of day
ScheduleUpdates == {[days |-> <<1>>, time_of_day |-> 0]}

\* update_announcement_schedule(days, time_of_day) is called by the web
\* handler (schedule_time of the bot runs the same two calls)
announcement_requests ==
    /\ \E schedule \in ScheduleUpdates :
          start_task([Task("update_announcement_schedule", 0, "set_schedule")
                          EXCEPT !.schedule = schedule])
    /\ UNCHANGED <<rvars, late, polling>>

\* await db.set_announcement_schedule(days, time_of_day), then
\* _refresh_announcement_job up to its store read: the job is removed
t_set_schedule(t) ==
    /\ Holds(t)
    /\ At(t, "set_schedule")
    /\ announcement_settings' = tasks[t].schedule
    /\ UNCHANGED settings_announcement_days
    /\ jobs' = IF AnnouncementJob \in DOMAIN jobs THEN remove_job(jobs, AnnouncementJob) ELSE jobs
    /\ Continue(t, [tasks[t] EXCEPT !.pc = "get_schedule"])
    /\ UNCHANGED <<reminders, last_rowid, proc, now, sent_count, late, polling>>
    /\ restored' = FALSE

\* schedule = await db.get_announcement_schedule(), then the rest of
\* _refresh_announcement_job: add_job with the schedule read
t_get_schedule(t) ==
    /\ Holds(t)
    /\ At(t, "get_schedule")
    /\ jobs' = refresh_announcement_job(jobs, announcement_settings, Clock)
    /\ Continue(t, NoTask)
    /\ UNCHANGED <<reminders, last_rowid, announcement_settings, settings_announcement_days, proc, now,
                   sent_count, late, polling>>
    /\ restored' = FALSE

\* is the row a once reminder whose run_at is before at
Passed(r, at) == r.type = "once" /\ r.run_at # Null /\ RunAtPassed(r.run_at, at)

\* restore_reminders: the loop over the loaded rows from the lowest id of
\* todo on, up to its end or to the store write schedule_reminder submits
\* for a once reminder whose time has passed
RECURSIVE restore_steps(_, _, _)
restore_steps(task, jbs, at) ==
    IF task.todo = {} THEN [jobs |-> jbs, task |-> NoTask]
    ELSE LET id == Min(task.todo)
             r == task.loaded[id]
             st == schedule_reminder(task.loaded, jbs, id, r, at)
             rest == [task EXCEPT !.todo = @ \ {id}, !.id = id, !.r = r]
         IN  IF Passed(r, at) THEN [jobs |-> st.jobs, task |-> [rest EXCEPT !.pc = "deact_past"]]
             ELSE IF st.raised THEN [jobs |-> st.jobs, task |-> NoTask]
             ELSE restore_steps(rest, st.jobs, at)

\* a schedule_reminder that is suspended between unschedule and add_job
scheduled_RemoveFirst(task, jbs, at) ==
    [jobs |-> unschedule_reminder(jbs, task.id), task |-> NoTask]

\* await schedule_reminder(reminder) with the row the task holds, up to its
\* return or to the store write of a once reminder whose time has passed
scheduled(task, jbs, at) ==
    [jobs |-> schedule_reminder(NoReminders, jbs, task.id, task.r, at).jobs,
     task |-> IF Passed(task.r, at) THEN [task EXCEPT !.pc = "deact_past"] ELSE NoTask]

\* await db.insert_reminder(...), then db.get_reminder is submitted
t_insert(t) ==
    /\ Holds(t)
    /\ At(t, "insert")
    /\ last_rowid < MaxStored
    /\ last_rowid < MaxReminders
    /\ reminders' = insert_reminder(reminders, last_rowid + 1, tasks[t].r)
    /\ last_rowid' = last_rowid + 1
    /\ Continue(t, [tasks[t] EXCEPT !.id = last_rowid + 1, !.pc = "get"])
    /\ UNCHANGED <<announcement_settings, settings_announcement_days, proc, jobs, now, sent_count, late, polling>>
    /\ restored' = FALSE

\* _fire_reminder writing active = 0 before it calls broadcast_message.
fire_after_get_DeactivatesFirst(task, r) ==
    IF r = NoRow \/ ~r.active THEN NoTask
    ELSE [task EXCEPT !.r = r, !.pc = IF r.type = "once" THEN "deact_fired" ELSE "broadcast"]

\* _fire_reminder calling broadcast_message whatever the row says.
fire_after_get_IgnoresActive(task, r) ==
    IF r = NoRow THEN NoTask
    ELSE [task EXCEPT !.r = r, !.pc = "broadcast"]

\* _fire_reminder after reminder = await db.get_reminder(reminder_id):
\* return when the row is missing or inactive, else call broadcast_message
fire_after_get(task, r) ==
    IF r = NoRow \/ ~r.active THEN NoTask
    ELSE [task EXCEPT !.r = r, !.pc = "broadcast"]

\* await db.get_reminder(id) and the code after it, up to the next store
\* operation: reminders_toggle submits the write of the negated flag, the
\* web handlers call schedule_reminder or unschedule_reminder with the row
\* read, _fire_reminder calls broadcast_message
t_get(t) ==
    /\ Holds(t)
    /\ At(t, "get")
    /\ (tasks[t].op = "fire_reminder" /\ FireSends(reminders, tasks[t].id))
          => sent_count[tasks[t].id] < MaxSent
    /\ LET task == tasks[t]
           r == get_reminder(reminders, task.id)
           held == [task EXCEPT !.r = r]
           st == CASE task.op = "reminders_toggle" ->
                        [jobs |-> jobs,
                         task |-> IF r = NoRow THEN NoTask
                                  ELSE [held EXCEPT !.active = ~r.active, !.pc = "set"]]
                   [] task.op = "handle_toggle_reminder" ->
                        IF r = NoRow THEN [jobs |-> jobs, task |-> NoTask]
                        ELSE IF task.active THEN scheduled(held, jobs, Clock)
                        ELSE [jobs |-> unschedule_reminder(jobs, task.id), task |-> NoTask]
                   [] task.op = "handle_create_reminder" ->
                        IF r = NoRow THEN [jobs |-> jobs, task |-> NoTask]
                        ELSE scheduled(held, jobs, Clock)
                   [] OTHER -> [jobs |-> jobs, task |-> fire_after_get(task, r)]
       IN  /\ Continue(t, st.task)
           /\ jobs' = st.jobs
           /\ sent_count' = IF st.task.pc = "broadcast"
                            THEN [sent_count EXCEPT ![task.id] = @ + 1]
                            ELSE sent_count
    /\ UNCHANGED <<reminders, last_rowid, announcement_settings, settings_announcement_days, proc, now,
                   late, polling>>
    /\ restored' = FALSE

\* await db.set_reminder_active(id, new_state) and the code after it:
\* handle_toggle_reminder submits db.get_reminder, reminders_toggle calls
\* schedule_reminder with the row it read before, or unschedule_reminder
t_set(t) ==
    /\ Holds(t)
    /\ At(t, "set")
    /\ reminders' = set_reminder_active(reminders, tasks[t].id, tasks[t].active)
    /\ LET task == tasks[t]
           st == IF task.op = "handle_toggle_reminder"
                 THEN [jobs |-> jobs, task |-> [task EXCEPT !.pc = "get"]]
                 ELSE IF task.active THEN scheduled(task, jobs, Clock)
                 ELSE [jobs |-> unschedule_reminder(jobs, task.id), task |-> NoTask]
       IN  /\ Continue(t, st.task)
           /\ jobs' = st.jobs
    /\ UNCHANGED <<last_rowid, announcement_settings, settings_announcement_days, proc, now, sent_count,
                   late, polling>>
    /\ restored' = FALSE

\* await db.delete_reminder(id); await unschedule_reminder(id)
t_del(t) ==
    /\ Holds(t)
    /\ At(t, "del")
    /\ reminders' = delete_reminder(reminders, tasks[t].id)
    /\ jobs' = unschedule_reminder(jobs, tasks[t].id)
    /\ Continue(t, NoTask)
    /\ UNCHANGED <<last_rowid, announcement_settings, settings_announcement_days, proc, now, sent_count,
                   late, polling>>
    /\ restored' = FALSE

\* await db.set_reminder_active(id, False) and the code after it: in
\* schedule_reminder for a once reminder whose time has passed (the caller
\* returns, restore_reminders goes on with its loop), in _fire_reminder
\* after the broadcast (unschedule_reminder follows)
t_deact(t) ==
    /\ Holds(t)
    /\ At(t, "deact_past") \/ At(t, "deact_fired")
    /\ reminders' = set_reminder_active(reminders, tasks[t].id, FALSE)
    /\ LET task == tasks[t]
           st == IF task.pc = "deact_fired"
                 THEN [jobs |-> unschedule_reminder(jobs, task.id), task |-> NoTask]
                 ELSE IF task.op = "restore_reminders" THEN restore_steps(task, jobs, Clock)
                 ELSE [jobs |-> jobs, task |-> NoTask]
       IN  /\ Continue(t, st.task)
           /\ jobs' = st.jobs
           /\ polling' = (polling \/ (task.op = "restore_reminders" /\ st.task = NoTask))
    /\ UNCHANGED <<last_rowid, announcement_settings, settings_announcement_days, proc, now, sent_count, late>>
    /\ restored' = FALSE

\* await broadcast_message(...) has returned to _fire_reminder, which
\* submits the write of active = 0 for a once reminder
t_broadcast_returned(t) ==
    /\ At(t, "broadcast")
    /\ tasks' = [tasks EXCEPT ![t] =
                    IF tasks[t].r.type = "once"
                    THEN [tasks[t] EXCEPT !.pc = "deact_fired"]
                    ELSE NoTask]
    /\ gate' = IF tasks[t].r.type = "once" THEN Append(gate, t) ELSE gate
    /\ UNCHANGED <<rvars, late, polling>>

\* restore_reminders: await db.get_active_reminders() and the loop
t_load(t) ==
    /\ Holds(t)
    /\ At(t, "load")
    /\ LET st == restore_steps([tasks[t] EXCEPT !.loaded = reminders,
                                               !.todo = get_active_reminders(reminders)],
                              jobs, Clock)
       IN  /\ Continue(t, st.task)
           /\ jobs' = st.jobs
           /\ polling' = (st.task = NoTask)
    /\ UNCHANGED <<reminders, last_rowid, announcement_settings, settings_announcement_days, proc, now,
                   sent_count, late>>
    /\ restored' = FALSE

\* The scheduler wakes up and finds the job reminder_<id> due: it moves or
\* removes the job and hands _fire_reminder(id) to the event loop.
\* A run that comes due while the job's previous run has not returned is
\* skipped (max_instances is left at 1).  The wake-up comes at the run time
\* or after it: the clock reads the run time still, or has moved past it.
dispatch(id) ==
    /\ proc = "running"
    /\ IsDue(jobs, job_id(id), now)
    /\ FreeSlots # {}
    /\ jobs' = job_after_run(jobs, job_id(id), now)
    /\ tasks' = IF \E t \in TaskSlots : tasks[t].op = "fire_reminder" /\ tasks[t].id = id
                THEN tasks
                ELSE [tasks EXCEPT ![Min(FreeSlots)] = Task("fire_reminder", id, "get")]
    /\ gate' = IF tasks' = tasks THEN gate ELSE Append(gate, Min(FreeSlots))
    /\ late' \in {late, TRUE}
    /\ UNCHANGED <<reminders, last_rowid, announcement_settings, settings_announcement_days, proc, now,
                   sent_count, polling>>
    /\ restored' = FALSE

\* ... and the job referral_announcements
dispatch_announcement ==
    /\ proc = "running"
    /\ IsDue(jobs, AnnouncementJob, now)
    /\ jobs' = job_after_run(jobs, AnnouncementJob, now)
    /\ late' \in {late, TRUE}
    /\ UNCHANGED <<reminders, last_rowid, announcement_settings, settings_announcement_days, proc, now,
                   sent_count, tasks, polling, gate>>
    /\ restored' = FALSE

\* The clock reaches the next instant; a running scheduler has woken up
\* for every job that was due.
clock_tick ==
    /\ now < MaxClock
    /\ proc = "running" => \A jid \in DOMAIN jobs : ~IsDue(jobs, jid, now)
    /\ now' = now + 1
    /\ late' = FALSE
    /\ UNCHANGED <<reminders, last_rowid, announcement_settings, settings_announcement_days, proc, jobs,
                   sent_count, tasks, polling, gate>>
    /\ restored' = FALSE

\* ... or moves within the instant
clock_moves ==
    /\ ~late
    /\ late' = TRUE
    /\ UNCHANGED <<rvars, tasks, polling, gate>>

\* The process is killed: coroutines, scheduler and jobs are gone.
crash ==
    /\ proc = "running"
    /\ proc' = "stopped"
    /\ jobs' = NoJobs
    /\ tasks' = [t \in TaskSlots |-> NoTask]
    /\ gate' = <<>>
    /\ polling' = FALSE
    /\ late' = TRUE
    /\ UNCHANGED <<reminders, last_rowid, announcement_settings, settings_announcement_days, now, sent_count>>
    /\ restored' = FALSE

\* main() up to the call of restore_reminders(): the scheduler is started
\* with the announcement job and the web server accepts requests.  When
\* setup_announcements raises, main ends there and the process stays down.
main_start ==
    /\ proc = "stopped"
    /\ ~refresh_raises(announcement_settings)
    /\ proc' = "running"
    /\ jobs' = refresh_announcement_job(NoJobs, announcement_settings, Clock)
    /\ tasks' = [t \in TaskSlots |->
                    IF t = 1 THEN Task("restore_reminders", 0, "load") ELSE NoTask]
    /\ gate' = <<1>>
    /\ polling' = FALSE
    /\ UNCHANGED <<reminders, last_rowid, announcement_settings, settings_announcement_days, now, sent_count, late>>
    /\ restored' = FALSE

\* The table reminders the process finds: empty, or a once reminder for
\* instant 1, or a daily reminder for the last time of day, or a daily
\* reminder whose column time_of_day is NULL (the column is nullable; no
\* handler of the bot writes such a row).
StoredTables ==
    {NoReminders,
     insert_reminder(NoReminders, 1, Row("once", 1, Null, Null, <<>>, 1)),
     insert_reminder(NoReminders, 1, Row("daily", Null, SlotsPerDay - 1, Null, <<>>, 1)),
     insert_reminder(NoReminders, 1, Row("daily", Null, Null, Null, <<>>, 1))}

InitTasks ==
    /\ InitDispatcherIdle
    /\ InitFiring
    /\ occ = NoOcc
    /\ settings_announcement_days = DefaultAnnouncementDays
    /\ \E stored \in StoredTables :
          /\ reminders = stored
          /\ last_rowid = Cardinality(DOMAIN stored)
          /\ jobs = restore_reminders(stored,
                        refresh_announcement_job(NoJobs, NoSchedule, 0), 0).jobs
    /\ announcement_settings = NoSchedule
    /\ proc = "running"
    /\ now = 0
    /\ sent_count = [i \in ReminderIds |-> 0]
    /\ restored = FALSE
    /\ tasks = [t \in TaskSlots |-> NoTask]
    /\ gate = <<>>
    /\ late = FALSE
    /\ polling = TRUE
    /\ runs = <<>>
    /\ send_log = <<>>
    /\ db_locked = FALSE
    /\ db_waiters = <<>>
    /\ db_woken = {}
    /\ db_ops = <<>>

NextTasks ==
    \/ telegram_callbacks /\ UNCHANGED <<bvars, fvars, ovars, uvars, gvars>>
    \/ web_requests /\ UNCHANGED <<bvars, fvars, ovars, uvars, gvars>>
    \/ (\E t \in TaskSlots : t_insert(t)) /\ UNCHANGED <<bvars, fvars, ovars, uvars, gvars>>
    \/ (\E t \in TaskSlots : t_get(t)) /\ UNCHANGED <<bvars, fvars, ovars, uvars, gvars>>
    \/ (\E t \in TaskSlots : t_set(t)) /\ UNCHANGED <<bvars, fvars, ovars, uvars, gvars>>
    \/ (\E t \in TaskSlots : t_del(t)) /\ UNCHANGED <<bvars, fvars, ovars, uvars, gvars>>
    \/ (\E t \in TaskSlots : t_deact(t)) /\ UNCHANGED <<bvars, fvars, ovars, uvars, gvars>>
    \/ (\E t \in TaskSlots : t_broadcast_returned(t)) /\ UNCHANGED <<bvars, fvars, ovars, uvars, gvars>>
    \/ (\E t \in TaskSlots : t_load(t)) /\ UNCHANGED <<bvars, fvars, ovars, uvars, gvars>>
    \/ announcement_requests /\ UNCHANGED <<bvars, fvars, ovars, uvars, gvars>>
    \/ (\E t \in TaskSlots : t_set_schedule(t)) /\ UNCHANGED <<bvars, fvars, ovars, uvars, gvars>>
    \/ (\E t \in TaskSlots : t_get_schedule(t)) /\ UNCHANGED <<bvars, fvars, ovars, uvars, gvars>>
    \/ (\E id \in ReminderIds : dispatch(id)) /\ UNCHANGED <<bvars, fvars, ovars, uvars, gvars>>
    \/ dispatch_announcement /\ UNCHANGED <<bvars, fvars, ovars, uvars, gvars>>
    \/ clock_tick /\ UNCHANGED <<bvars, fvars, ovars, uvars, gvars>>
    \/ clock_moves /\ UNCHANGED <<bvars, fvars, ovars, uvars, gvars>>
    \/ crash /\ UNCHANGED <<bvars, fvars, ovars, uvars, gvars>>
    \/ main_start /\ UNCHANGED <<bvars, fvars, ovars, uvars, gvars>>

SpecTasks == InitTasks /\ [][NextTasks]_vars

(***************************************************************************)
(* The announcement schedule.  The web handler handle_update_schedule      *)
(* takes any list of integers as days, the empty one included, and any     *)
(* time of day; the configured days are those of the environment, which    *)
(* may name no day at all.                                                  *)
(***************************************************************************)
ScheduleInputs ==
    {[days |-> days, time_of_day |-> slot] :
        days \in {<<>>, <<1>>, <<2, 4>>, <<DaysPerWeek>>}, slot \in 0..(SlotsPerDay - 1)}

\* handle_update_schedule calls update_announcement_schedule(days_int, time_of_day)
handle_update_schedule ==
    /\ \E schedule \in ScheduleInputs :
          start_task([Task("update_announcement_schedule", 0, "set_schedule")
                          EXCEPT !.schedule = schedule])
    /\ UNCHANGED <<rvars, late, polling>>

InitAnnouncements ==
    /\ InitDispatcherIdle
    /\ InitFiring
    /\ occ = NoOcc
    /\ settings_announcement_days \in {DefaultAnnouncementDays, <<>>}
    /\ reminders = NoReminders
    /\ last_rowid = 0
    /\ announcement_settings = NoSchedule
    /\ jobs = refresh_announcement_job(NoJobs, NoSchedule, 0)
    /\ proc = "running"
    /\ now = 0
    /\ sent_count = [i \in ReminderIds |-> 0]
    /\ restored = FALSE
    /\ tasks = [t \in TaskSlots |-> NoTask]
    /\ gate = <<>>
    /\ late = FALSE
    /\ polling = TRUE
    /\ runs = <<>>
    /\ send_log = <<>>
    /\ db_locked = FALSE
    /\ db_waiters = <<>>
    /\ db_woken = {}
    /\ db_ops = <<>>

NextAnnouncements ==
    \/ handle_update_schedule /\ UNCHANGED <<bvars, fvars, ovars, uvars, gvars>>
    \/ (\E t \in TaskSlots : t_set_schedule(t)) /\ UNCHANGED <<bvars, fvars, ovars, uvars, gvars>>
    \/ (\E t \in TaskSlots : t_get_schedule(t)) /\ UNCHANGED <<bvars, fvars, ovars, uvars, gvars>>
    \/ (\E t \in TaskSlots : t_load(t)) /\ UNCHANGED <<bvars, fvars, ovars, uvars, gvars>>
    \/ dispatch_announcement /\ UNCHANGED <<bvars, fvars, ovars, uvars, gvars>>
    \/ clock_tick /\ UNCHANGED <<bvars, fvars, ovars, uvars, gvars>>
    \/ clock_moves /\ UNCHANGED <<bvars, fvars, ovars, uvars, gvars>>
    \/ crash /\ UNCHANGED <<bvars, fvars, ovars, uvars, gvars>>
    \/ main_start /\ UNCHANGED <<bvars, fvars, ovars, uvars, gvars>>

SpecAnnouncements == InitAnnouncements /\ [][NextAnnouncements]_vars

(***************************************************************************)
(* Reminders and the announcement schedule side by side, every operation   *)
(* run to its end before the next.                                         *)
(***************************************************************************)
\* update_announcement_schedule(days, time_of_day): the store write and
\* _refresh_announcement_job
update_announcement_schedule ==
    /\ proc = "running"
    /\ \E schedule \in ScheduleUpdates :
          /\ announcement_settings' = schedule
          /\ jobs' = refresh_announcement_job(jobs, schedule, now)
    /\ UNCHANGED <<reminders, last_rowid, settings_announcement_days, proc, now, sent_count>>
    /\ restored' = FALSE

NextFrame ==
    \/ NextReminders
    \/ update_announcement_schedule /\ UNCHANGED <<bvars, fvars, ovars, xvars>>

SpecFrame == InitLifecycle /\ [][NextFrame]_vars

(***************************************************************************)
(* Broadcast runs side by side.  The scheduler's executor makes one task   *)
(* of every job callback it runs, and the web server one of every request: *)
(* a call of broadcast_message is suspended in each send and each sleep,   *)
(* and the event loop runs the other tasks meanwhile.                      *)
(***************************************************************************)
\* the callers of broadcast_message that the scheduler starts
Broadcasters == {"_fire_reminder", "send_scheduled_announcement"}

\* the chats _eligible_chats yields to a run, by their place in the list
RunChats == 1..NumChats

NotCalled == [pc |-> "idle", idx |-> 0, attempt |-> 0, retried |-> 0]

\* the run goes on to the chat after idx and issues the send, or returns
next_chat(run) ==
    IF run.idx < NumChats
    THEN [run EXCEPT !.pc = "send", !.idx = @ + 1, !.attempt = 1]
    ELSE [run EXCEPT !.pc = "done"]

\* a run that starts its list again after a sleep
after_sleep_FromFirstChat(run) ==
    IF run.attempt < broadcast_retry_count
    THEN [run EXCEPT !.pc = "send", !.idx = 1, !.attempt = @ + 1]
    ELSE next_chat(run)

\* asyncio.sleep has returned: the next attempt for the same chat, or the
\* next chat when the attempts are used up
after_sleep(run) ==
    IF run.attempt < broadcast_retry_count
    THEN [run EXCEPT !.pc = "send", !.attempt = @ + 1]
    ELSE next_chat(run)

\* the run as it stands and the log after the step that made it next
Issue(b, next) ==
    /\ runs' = [runs EXCEPT ![b] = next]
    /\ send_log' = IF next.pc = "send"
                   THEN Append(send_log, [run |-> b, chat |-> next.idx])
                   ELSE send_log

\* the scheduler runs the job of b: broadcast_message is called and
\* issues its first send
run_begin(b) ==
    /\ runs[b].pc = "idle"
    /\ Issue(b, next_chat(runs[b]))

\* the send of b is answered: sent, Forbidden or BadRequest end the chat,
\* RetryAfter or another error put the run to sleep
send_answered(b) ==
    /\ runs[b].pc = "send"
    /\ \/ Issue(b, next_chat(runs[b]))
       \/ /\ runs[b].retried < MaxRetryAfter
          /\ Issue(b, [runs[b] EXCEPT !.pc = "sleep", !.retried = @ + 1])

sleep_over(b) ==
    /\ runs[b].pc = "sleep"
    /\ Issue(b, after_sleep(runs[b]))

InitRuns ==
    /\ InitDispatcherIdle
    /\ InitFiring
    /\ occ = NoOcc
    /\ reminders = NoReminders
    /\ last_rowid = 0
    /\ jobs = NoJobs
    /\ announcement_settings = NoSchedule
    /\ settings_announcement_days = DefaultAnnouncementDays
    /\ proc = "running"
    /\ now = 0
    /\ sent_count = [i \in ReminderIds |-> 0]
    /\ restored = FALSE
    /\ tasks = <<>>
    /\ gate = <<>>
    /\ late = FALSE
    /\ polling = TRUE
    /\ runs = [b \in Broadcasters |-> NotCalled]
    /\ db_locked = FALSE
    /\ db_waiters = <<>>
    /\ db_woken = {}
    /\ db_ops = <<>>
    /\ send_log = <<>>

NextRuns ==
    \/ (\E b \in Broadcasters : run_begin(b)) /\ UNCHANGED <<bvars, rvars, fvars, ovars, tvars, gvars>>
    \/ (\E b \in Broadcasters : send_answered(b)) /\ UNCHANGED <<bvars, rvars, fvars, ovars, tvars, gvars>>
    \/ (\E b \in Broadcasters : sleep_over(b)) /\ UNCHANGED <<bvars, rvars, fvars, ovars, tvars, gvars>>

SpecRuns == InitRuns /\ [][NextRuns]_vars

(***************************************************************************)
(* The store's lock.  execute, fetchone, fetchall and insert_reminder run  *)
(* their statements inside async with self._lock; the callers are the      *)
(* handlers, the scheduler's callbacks and the broadcast runs, each a task *)
(* of the one event loop.                                                  *)
(***************************************************************************)
\* the tasks that issue store operations
Callers == 1..(MaxTasks + 1)

StoreOps == {"execute", "fetchone", "fetchall", "insert_reminder"}

\* waited: the caller was suspended in acquire() for this operation
NoOp == [op |-> "none", pc |-> "idle", waited |-> FALSE]

\* a lock that lets a caller in whatever its state
CanEnter_Always(locked, waiters) == TRUE

\* Lock.acquire takes the lock at once when it is free and nobody waits
CanEnter(locked, waiters) == ~locked /\ waiters = <<>>

\* the callers inside async with self._lock
InCriticalSection == {c \in Callers : db_ops[c].pc = "inside"}

\* a task calls execute / fetchone / fetchall / insert_reminder: async with
\* self._lock either enters or appends the caller to the waiters
op_called(c) ==
    /\ db_ops[c].pc = "idle"
    /\ \E op \in StoreOps :
          IF CanEnter(db_locked, db_waiters)
          THEN /\ db_locked' = TRUE
               /\ db_ops' = [db_ops EXCEPT ![c] = [op |-> op, pc |-> "inside", waited |-> FALSE]]
               /\ UNCHANGED <<db_waiters, db_woken>>
          ELSE /\ db_waiters' = Append(db_waiters, c)
               /\ db_ops' = [db_ops EXCEPT ![c] = [op |-> op, pc |-> "waiting", waited |-> TRUE]]
               /\ UNCHANGED <<db_locked, db_woken>>

\* the statements of the operation have been executed and committed:
\* the block is left, release() frees the lock and completes the future
\* of the first waiter
op_returns(c) ==
    /\ db_ops[c].pc = "inside"
    /\ db_locked' = FALSE
    /\ db_woken' = IF db_waiters = <<>> THEN db_woken ELSE db_woken \cup {Head(db_waiters)}
    /\ db_ops' = [db_ops EXCEPT ![c] = NoOp]
    /\ UNCHANGED db_waiters

\* a waiter whose future is complete resumes in acquire(): it leaves the
\* waiters and takes the lock
waiter_resumes(c) ==
    /\ db_ops[c].pc = "waiting"
    /\ c \in db_woken
    /\ db_waiters' = SelectSeq(db_waiters, LAMBDA w : w # c)
    /\ db_woken' = db_woken \ {c}
    /\ db_locked' = TRUE
    /\ db_ops' = [db_ops EXCEPT ![c].pc = "inside"]

InitGate ==
    /\ InitDispatcherIdle
    /\ InitFiring
    /\ occ = NoOcc
    /\ reminders = NoReminders
    /\ last_rowid = 0
    /\ jobs = NoJobs
    /\ announcement_settings = NoSchedule
    /\ settings_announcement_days = DefaultAnnouncementDays
    /\ proc = "running"
    /\ now = 0
    /\ sent_count = [i \in ReminderIds |-> 0]
    /\ restored = FALSE
    /\ tasks = <<>>
    /\ gate = <<>>
    /\ late = FALSE
    /\ polling = TRUE
    /\ runs = <<>>
    /\ send_log = <<>>
    /\ db_locked = FALSE
    /\ db_waiters = <<>>
    /\ db_woken = {}
    /\ db_ops = [c \in Callers |-> NoOp]

NextGate ==
    \/ (\E c \in Callers : op_called(c)) /\ UNCHANGED <<bvars, rvars, fvars, ovars, tvars, uvars>>
    \/ (\E c \in Callers : op_returns(c)) /\ UNCHANGED <<bvars, rvars, fvars, ovars, tvars, uvars>>
    \/ (\E c \in Callers : waiter_resumes(c)) /\ UNCHANGED <<bvars, rvars, fvars, ovars, tvars, uvars>>

SpecGate == InitGate /\ [][NextGate]_vars

\* Every store operation comes back from the aiosqlite thread, and the
\* event loop resumes every task whose future is complete.
FairSpecGate ==
    /\ SpecGate
    /\ \A c \in Callers :
          /\ WF_vars(op_returns(c) /\ UNCHANGED <<bvars, rvars, fvars, ovars, tvars, uvars>>)
          /\ WF_vars(waiter_resumes(c) /\ UNCHANGED <<bvars, rvars, fvars, ovars, tvars, uvars>>)

\* The event loop keeps resuming a started run: every await of the run (a
\* send, a lookup, a sleep) returns or raises, and the coroutine goes on.
FairSpecBroadcast ==
    /\ SpecBroadcast
    /\ WF_vars(eligible_chats_next /\ UNCHANGED <<rvars, fvars, ovars, xvars>>)
    /\ WF_vars(send_attempt /\ UNCHANGED <<rvars, fvars, ovars, xvars>>)
    /\ WF_vars(sleep_done /\ UNCHANGED <<rvars, fvars, ovars, xvars>>)

(***************************************************************************)
(* Properties of the broadcast dispatcher.                                 *)
(***************************************************************************)
CountKind(seq, kind) == Cardinality({i \in DOMAIN seq : seq[i].kind = kind})

HasChat == b_chat # 0

\* C3: a RateLimited answer does not advance the attempt counter, and the
\* run never gives a chat up when all it got from it were RateLimited answers.
C3_RateLimitedNotCounted ==
    /\ b_pc = "send" => b_attempt = 1 + Len(resp) - CountKind(resp, "RetryAfter")
    /\ ~(/\ HasChat
         /\ outcome[b_chat] = "exhausted"
         /\ CountKind(resp, "RetryAfter") = Len(resp))

\* C4: with broadcast_retry_count = 3, a chat that answers RateLimited(r)
\* twice and then accepts is delivered to on the third physical send; the
\* send after a RateLimited(r) answer comes no sooner than r seconds after
\* it, and the chat is not given up while the third send is due.
C4_TwoRateLimitsThenDelivered ==
    broadcast_retry_count = 3 =>
    /\ \A i \in DOMAIN resp :
          (resp[i].kind = "RetryAfter" /\ i + 1 \in DOMAIN sent_at)
              => sent_at[i + 1] - sent_at[i] >= resp[i].retry_after * TicksPerSecond
    /\ (b_pc = "sleep" /\ resp[Len(resp)].kind = "RetryAfter")
          => b_wake - sent_at[Len(resp)] >= resp[Len(resp)].retry_after * TicksPerSecond
    /\ (HasChat /\ Len(resp) >= 2 /\ resp[1].kind = "RetryAfter" /\ resp[2].kind = "RetryAfter")
          => /\ Len(resp) = 2 => (b_pc \in {"sleep", "send"} /\ outcome[b_chat] = "none")
             /\ (Len(resp) >= 3 /\ resp[3].kind = "ok")
                   => (Len(resp) = 3 /\ outcome[b_chat] = "delivered")

C4_Witness ==
    /\ HasChat
    /\ Len(resp) = 3
    /\ resp[1].kind = "RetryAfter" /\ resp[2].kind = "RetryAfter" /\ resp[3].kind = "ok"
    /\ resp[1].retry_after = resp[2].retry_after
    /\ outcome[b_chat] = "delivered"

\* C5: a Forbidden answer is the last send to that chat in the run, the
\* chat is inactive in the store from then on, and the run goes on to the
\* next chat.
C5_ForbiddenMarksInactive ==
    /\ \A i \in DOMAIN resp :
          resp[i].kind = "Forbidden"
              => /\ i = Len(resp)
                 /\ b_pc \in {"iter", "done"}
                 /\ outcome[b_chat] = "forbidden"
    /\ \A c \in ChatIds :
          outcome[c] = "forbidden"
              => /\ ~IsActiveChat(chats, c)
                 /\ b_pc \in {"send", "sleep"} => b_chat # c

C5_Witness ==
    \E c \in ChatIds :
        /\ outcome[c] = "forbidden"
        /\ b_pc = "send"
        /\ b_chat # c

\* C8: every Unknown failure consumes one attempt, the retry comes no
\* sooner than broadcast_retry_delay after it, and after
\* broadcast_retry_count Unknown failures the chat is abandoned, still
\* active in the store, and the run goes on.
C8_UnknownConsumesAttempt ==
    /\ (b_pc = "send" /\ CountKind(resp, "Unknown") = Len(resp))
          => b_attempt = 1 + CountKind(resp, "Unknown")
    /\ \A i \in DOMAIN resp :
          (resp[i].kind = "Unknown" /\ i + 1 \in DOMAIN sent_at)
              => sent_at[i + 1] - sent_at[i] >= broadcast_retry_delay * TicksPerSecond
    /\ CountKind(resp, "Unknown") <= broadcast_retry_count
    /\ (HasChat /\ CountKind(resp, "Unknown") = broadcast_retry_count)
          => /\ b_pc \in {"sleep", "iter", "done"}
             /\ b_pc # "sleep" => outcome[b_chat] = "exhausted"
             /\ IsActiveChat(chats, b_chat)

C8_Witness ==
    /\ HasChat
    /\ CountKind(resp, "Unknown") = broadcast_retry_count
    /\ outcome[b_chat] = "exhausted"
    /\ b_pc = "iter"
    /\ b_pending # <<>>

\* C9: a BadRequest answer is the last send to that chat in the run and the
\* chat stays active in the store.
C9_BadRequestAbandons ==
    /\ \A i \in DOMAIN resp :
          resp[i].kind = "BadRequest"
              => /\ i = Len(resp)
                 /\ b_pc \in {"iter", "done"}
                 /\ outcome[b_chat] = "bad_request"
                 /\ IsActiveChat(chats, b_chat)
    /\ \A c \in ChatIds :
          outcome[c] = "bad_request"
              => /\ IsActiveChat(chats, c)
                 /\ b_pc \in {"send", "sleep"} => b_chat # c

C9_Witness ==
    \E c \in ChatIds :
        /\ outcome[c] = "bad_request"
        /\ b_pc = "done"
        /\ IsActiveChat(chats, c)

\* C10: whatever the chats answer, a started run reaches its end, and no
\* answer of a send leaves broadcast_message as an exception.
C10_BroadcastTerminates ==
    /\ [](b_pc # "raised")
    /\ (b_pc \in {"iter", "send", "sleep"}) ~> (b_pc = "done")

C10_Witness ==
    /\ b_pc = "done"
    /\ HasChat
    /\ outcome[b_chat] = "exhausted"
    /\ Len(resp) = broadcast_retry_count
    /\ CountKind(resp, "RetryAfter") = Len(resp)

\* C11: the chat the filter yields starts with attempt 1 and no send behind
\* it, whatever happened to the chats before it; the attempts a chat has
\* used are the sends made to that chat alone; and the chat that was
\* yielded receives a send.
C11_EveryYieldedChatIsSent ==
    /\ [][(b_pc = "iter" /\ b_pc' = "send")
              => /\ b_chat' = Head(b_pending).chat_id
                 /\ b_attempt' = 1
                 /\ resp' = <<>>]_vars
    /\ [](/\ b_pc = "send" => (b_attempt = Len(resp) + 1 /\ b_attempt <= broadcast_retry_count)
          /\ b_pc = "sleep" => b_attempt = Len(resp))
    /\ (b_pc = "send" /\ resp = <<>>) ~> (Len(resp) >= 1)

\* a chat uses its whole budget after the chat before it was given up
C11_Witness ==
    /\ HasChat
    /\ Len(resp) = broadcast_retry_count
    /\ outcome[b_chat] = "delivered"
    /\ \E c \in ChatIds : c # b_chat /\ outcome[c] = "exhausted"

ApprovedIds == settings_approved_chat_ids \cup approved_chats

AdminIds == settings_admin_ids \cup admins

\* titles that carry the marker: lower case with a '*' inside, and upper case
MarkedTitles == {TitleMarked, TitleUpper}

\* C12: a chat whose id is configured or stored as approved is never the
\* chat a run sends to, whatever its type and the run's ignore_inactive;
\* when the run has ended the chat, if active, was visited and skipped.
C12_ApprovedNeverSent ==
    \A i \in DOMAIN chats :
        chats[i].chat_id \in ApprovedIds
            => /\ b_chat # chats[i].chat_id
               /\ outcome[chats[i].chat_id] \in {"none", "skipped"}
               /\ (b_pc = "done" /\ chats[i].is_active)
                     => outcome[chats[i].chat_id] = "skipped"

C12_Witness ==
    /\ b_pc = "done"
    /\ ~b_ignore_inactive
    /\ \E i \in DOMAIN chats :
          /\ chats[i].chat_id \in settings_approved_chat_ids
          /\ chats[i].type = "group"
          /\ chats[i].is_active
          /\ outcome[chats[i].chat_id] = "skipped"

\* C13: a private chat whose id is a configured or stored admin id is never
\* the chat a run sends to; a group or supergroup with such an id is not
\* skipped for it (it is sent to when no other rule excludes it).
C13_AdminPrivateNeverSent ==
    \A i \in DOMAIN chats :
        chats[i].chat_id \in AdminIds
            => /\ chats[i].type = "private"
                     => /\ b_chat # chats[i].chat_id
                        /\ outcome[chats[i].chat_id] \in {"none", "skipped"}
               /\ (/\ chats[i].type # "private"
                   /\ chats[i].chat_id \notin ApprovedIds
                   /\ ~b_ignore_inactive)
                     => /\ outcome[chats[i].chat_id] # "skipped"
                        /\ (b_pc = "done" /\ chats[i].is_active)
                              => outcome[chats[i].chat_id] # "none"

C13_Witness ==
    /\ b_pc = "done"
    /\ ~b_ignore_inactive
    /\ \E i \in DOMAIN chats :
          /\ chats[i].chat_id \in admins
          /\ chats[i].type = "private"
          /\ chats[i].is_active
          /\ outcome[chats[i].chat_id] = "skipped"

\* C14: in a run with ignore_inactive, a group or supergroup whose cached
\* title carries the marker is never sent to and never looked up; a private
\* chat, and any chat in a run without ignore_inactive, is never looked up
\* and is skipped only by the approved or the admin rule.
C14_MarkedGroupsFiltered ==
    \A i \in DOMAIN chats :
        /\ (/\ b_ignore_inactive
            /\ chats[i].type \in {"group", "supergroup"}
            /\ chats[i].title \in MarkedTitles)
              => /\ b_chat # chats[i].chat_id
                 /\ outcome[chats[i].chat_id] \in {"none", "skipped"}
                 /\ lookups[chats[i].chat_id] = 0
        /\ (chats[i].type = "private" \/ ~b_ignore_inactive)
              => /\ lookups[chats[i].chat_id] = 0
                 /\ (/\ chats[i].chat_id \notin ApprovedIds
                     /\ ~(chats[i].type = "private" /\ chats[i].chat_id \in AdminIds))
                       => outcome[chats[i].chat_id] # "skipped"

C14_Witness ==
    /\ b_pc = "done"
    /\ b_ignore_inactive
    /\ \E i \in DOMAIN chats :
          /\ chats[i].type = "supergroup"
          /\ chats[i].title = TitleMarked
          /\ chats[i].chat_id \notin ApprovedIds
          /\ chats[i].is_active
          /\ outcome[chats[i].chat_id] = "skipped"
          /\ lookups[chats[i].chat_id] = 0

\* C15: in a run with ignore_inactive, no chat is looked up twice, and a
\* group or supergroup without the marker in its cached title (and not
\* approved) is looked up once when the filter visits it; when the live
\* title carries the marker the chat is skipped, and when the lookup raises
\* or the live title is clean the chat is yielded and sent to.
C15_OneLiveLookup ==
    /\ \A c \in ChatIds : lookups[c] <= 1
    /\ \A i \in DOMAIN chats :
          (/\ b_ignore_inactive
           /\ chats[i].type \in {"group", "supergroup"}
           /\ chats[i].title \notin MarkedTitles
           /\ chats[i].chat_id \notin ApprovedIds
           /\ (outcome[chats[i].chat_id] # "none" \/ b_chat = chats[i].chat_id))
              => lookups[chats[i].chat_id] = 1
    /\ live_answer.chat_id # 0
          => /\ lookups[live_answer.chat_id] = 1
             /\ (live_answer.ok /\ live_answer.title \in MarkedTitles)
                   => /\ outcome[live_answer.chat_id] = "skipped"
                      /\ b_chat # live_answer.chat_id
             /\ ~(live_answer.ok /\ live_answer.title \in MarkedTitles)
                   => /\ b_chat = live_answer.chat_id
                      /\ outcome[live_answer.chat_id] # "skipped"
                      /\ b_pc # "send" => Len(resp) >= 1

\* the lookup raised and the chat was delivered to
C15_Witness ==
    /\ live_answer.chat_id # 0
    /\ ~live_answer.ok
    /\ b_chat = live_answer.chat_id
    /\ outcome[b_chat] = "delivered"

(***************************************************************************)
(* Properties of the reminder part.                                        *)
(***************************************************************************)
IsActive(rows, id) == id \in DOMAIN rows /\ rows[id].active

IsOnce(rows, id) == id \in DOMAIN rows /\ rows[id].type = "once"

\* one job reminder_<id> for every active reminder, none for any other id
JobsMatchStore(rows, jbs) ==
    \A id \in ReminderIds : HasJob(jbs, id) <=> IsActive(rows, id)

\* C1: between reminder operations that run one at a time to completion,
\* the scheduler of the running process holds a job reminder_<id> exactly
\* for the reminders that are active in the store.
C1_OneJobPerActiveReminder == proc = "running" => JobsMatchStore(reminders, jobs)

\* C2: a restoration pass on a fresh scheduler ends with the process
\* running and a job reminder_<id> exactly for the reminders that are
\* active in the store when it has finished.
C2_RestoreMatchesStore ==
    restored => (proc = "running" /\ JobsMatchStore(reminders, jobs))

\* C6: a firing that broadcasts a once reminder leaves it inactive in the
\* store and without a job, and a restoration pass that finds a fired once
\* reminder inactive leaves it inactive and registers no job for it.
C6_OnceFiringDeactivates ==
    [][\A id \in ReminderIds :
          IsOnce(reminders, id) =>
              /\ sent_count'[id] > sent_count[id] =>
                     /\ id \in DOMAIN reminders'
                     /\ ~reminders'[id].active
                     /\ ~HasJob(jobs', id)
              /\ (restored' /\ sent_count[id] > 0 /\ ~reminders[id].active) =>
                     /\ ~IsActive(reminders', id)
                     /\ ~HasJob(jobs', id)]_vars

\* a restoration pass has just run over a once reminder that had fired
C6_Witness ==
    /\ restored
    /\ proc = "running"
    /\ \E id \in ReminderIds :
          /\ IsOnce(reminders, id)
          /\ sent_count[id] > 0
          /\ ~reminders[id].active
          /\ ~HasJob(jobs, id)

\* C7: a once reminder whose run_at is earlier than the current instant is,
\* in the running process, inactive and without a job, whether it was
\* created, switched on or restored after run_at; and no step broadcasts a
\* once reminder whose run_at is earlier than the instant of the step.
C7_PastOnceNeverDelivered ==
    [][\A id \in ReminderIds :
          (IsOnce(reminders', id) /\ reminders'[id].run_at < now') =>
              /\ proc' = "running" => (~reminders'[id].active /\ ~HasJob(jobs', id))
              /\ sent_count'[id] = sent_count[id]]_vars

\* a restoration pass has just met a once reminder whose run_at went by
\* while the process was down: it is inactive and was never broadcast
C7_Witness ==
    /\ restored
    /\ proc = "running"
    /\ \E id \in ReminderIds :
          /\ IsOnce(reminders, id)
          /\ reminders[id].run_at < now
          /\ ~reminders[id].active
          /\ ~HasJob(jobs, id)
          /\ sent_count[id] = 0

\* the day_of_week expression schedule_reminder builds for the row is one
\* CronTrigger accepts (a row of another type builds none)
WeekdaysAccepted(r) ==
    /\ r.type = "weekly" => CronDaysValid({r.weekday})
    /\ r.type = "twice" => (r.weekdays = <<>> \/ CronDaysValid(SeqToSet(r.weekdays)))

\* a create operation returned: the store handed out the next row id
Created == last_rowid' = last_rowid + 1

SameOtherJobs(jbs1, jbs2, id) ==
    /\ DOMAIN jbs1 \ {job_id(id)} = DOMAIN jbs2 \ {job_id(id)}
    /\ \A j \in DOMAIN jbs1 \ {job_id(id)} : jbs1[j] = jbs2[j]

\* C20: in every state the operations reach, for every stored reminder (of
\* every type) schedule_reminder followed by unschedule_reminder of the same
\* id leaves no job reminder_<id> and the other jobs as they were; and
\* unschedule_reminder of an id without a job returns the job store
\* unchanged.  A step that switches a reminder off or deletes it leaves no
\* job for it.
C20_UnscheduleRemovesJob ==
    /\ [](\A id \in ReminderIds :
            /\ ~HasJob(unschedule_reminder(jobs, id), id)
            /\ SameOtherJobs(unschedule_reminder(jobs, id), jobs, id)
            /\ ~HasJob(jobs, id) => unschedule_reminder(jobs, id) = jobs
            /\ (proc = "running" /\ id \in DOMAIN reminders) =>
                  /\ ~HasJob(unschedule_reminder(
                                schedule_reminder(reminders, jobs, id, reminders[id], now).jobs,
                                id), id)
                  /\ SameOtherJobs(unschedule_reminder(
                                schedule_reminder(reminders, jobs, id, reminders[id], now).jobs,
                                id), jobs, id))
    /\ [][\A id \in ReminderIds :
            (IsActive(reminders, id) /\ ~IsActive(reminders', id)) => ~HasJob(jobs', id)]_vars

\* a recurring reminder that was scheduled and then switched off: no job
\* for it, the job of the other reminder still there
C20_Witness ==
    /\ proc = "running"
    /\ \E id \in DOMAIN reminders :
          /\ reminders[id].type = "biweekly"
          /\ ~reminders[id].active
          /\ ~HasJob(jobs, id)
          /\ \E other \in DOMAIN reminders :
                other # id /\ reminders[other].active /\ HasJob(jobs, other)

\* the instant t falls on the weekday at the time of day
Falls(t, weekday, slot) == WeekdayOf(t) = weekday /\ SlotOf(t) = slot

\* C17: for every instant and every target weekday and time of day the
\* anchor _next_occurrence returns falls on the target, is later than the
\* instant and at most a week later, and no instant between the two falls
\* on the target; a target equal to the instant gives the instant one week
\* later; Wednesday 10:00 with target Monday 09:00 gives the Monday of the
\* next week at 09:00; and the biweekly job starts at the anchor and runs
\* at the anchor plus 2k weeks.
C17_NextOccurrenceIsNextStrict ==
    occ.anchor # Null =>
        /\ Falls(occ.anchor, occ.weekday, occ.slot)
        /\ occ.at < occ.anchor
        /\ occ.anchor <= occ.at + SlotsPerWeek
        /\ \A t \in (occ.at + 1)..(occ.anchor - 1) : ~Falls(t, occ.weekday, occ.slot)
        /\ Falls(occ.at, occ.weekday, occ.slot) => occ.anchor = occ.at + SlotsPerWeek
        /\ (occ.at = 2 * SlotsPerDay + 1 /\ occ.weekday = 0 /\ occ.slot = 0)
              => occ.anchor = DaysPerWeek * SlotsPerDay
        /\ BiweeklyJob(occ).trigger = IntervalTrigger(2, occ.anchor)
        /\ BiweeklyJob(occ).next_run_time = occ.anchor
        /\ \A k \in 1..Len(occ.runs) :
              occ.runs[k] = occ.anchor + 2 * (k - 1) * SlotsPerWeek

\* Wednesday, second time of day, target Monday at the first: the job has
\* run MaxRuns times from the Monday of the next week
C17_Witness ==
    /\ occ.at = 2 * SlotsPerDay + 1
    /\ occ.weekday = 0
    /\ occ.slot = 0
    /\ occ.anchor = DaysPerWeek * SlotsPerDay
    /\ Len(occ.runs) = MaxRuns
    /\ occ.runs[MaxRuns] = occ.anchor + 2 * (MaxRuns - 1) * SlotsPerWeek

\* the rules of the filter that need no lookup exclude the chat from the
\* current run, given its ignore_inactive: the chat was inactive when the
\* run started (not switched off by a Forbidden answer of this run), ...
ExcludedByRule(chat, ignore_inactive) ==
    \/ ~chat.is_active /\ outcome[chat.chat_id] # "forbidden"
    \/ chat.chat_id \in ApprovedIds
    \/ chat.type = "private" /\ chat.chat_id \in AdminIds
    \/ /\ ignore_inactive
       /\ chat.type \in {"group", "supergroup"}
       /\ chat.title \in MarkedTitles

\* the run started by a reminder's firing has returned
FiringDone == firing \in DOMAIN reminders /\ b_pc = "done"

\* C16: a twice reminder is broadcast only at instants whose weekday is one
\* of its weekdays and whose time of day is its time, and its job waits for
\* such an instant; when the run of a firing has returned and every send
\* was answered with success, the delivery channel has received no send for
\* a chat the filter excludes (inactive, approved, private chat of an admin,
\* marked title, cached or live) and exactly one send for every other chat.
C16_TwiceFiringSendsOnceEach ==
    /\ [][\A id \in ReminderIds :
            (IsActive(reminders, id) /\ reminders[id].type = "twice"
                /\ sent_count'[id] > sent_count[id])
              => /\ WeekdayOf(now) \in SeqToSet(reminders[id].weekdays)
                 /\ SlotOf(now) = reminders[id].time_of_day]_vars
    /\ [](\A id \in DOMAIN reminders :
            (reminders[id].type = "twice" /\ HasJob(jobs, id))
              => /\ WeekdayOf(jobs[job_id(id)].next_run_time) \in SeqToSet(reminders[id].weekdays)
                 /\ SlotOf(jobs[job_id(id)].next_run_time) = reminders[id].time_of_day)
    /\ [](\A i \in DOMAIN chats :
            /\ (firing \in DOMAIN reminders /\ ExcludedByRule(chats[i], b_ignore_inactive))
                  => channel_sends[chats[i].chat_id] = 0
            /\ (FiringDone /\ ~send_failed /\ ~ExcludedByRule(chats[i], b_ignore_inactive))
                  => /\ lookups[chats[i].chat_id] = 0
                           => channel_sends[chats[i].chat_id] = 1
                     /\ live_answer.chat_id = chats[i].chat_id
                           => channel_sends[chats[i].chat_id] =
                                 IF live_answer.ok /\ live_answer.title \in MarkedTitles
                                 THEN 0 ELSE 1
                     /\ channel_sends[chats[i].chat_id] =
                           IF outcome[chats[i].chat_id] = "skipped" THEN 0 ELSE 1)

\* the second firing, on Thursday at 09:00, has returned with every send
\* answered with success: one send to one chat, none to an excluded one
C16_Witness ==
    /\ FiringDone
    /\ reminders[firing].type = "twice"
    /\ SeqToSet(reminders[firing].weekdays) = {0, 3}
    /\ WeekdayOf(now) = 3
    /\ SlotOf(now) = 0
    /\ sent_count[firing] = 2
    /\ ~send_failed
    /\ \E i, j \in DOMAIN chats :
          /\ chats[i].is_active
          /\ ExcludedByRule(chats[i], b_ignore_inactive)
          /\ channel_sends[chats[i].chat_id] = 0
          /\ ~ExcludedByRule(chats[j], b_ignore_inactive)
          /\ channel_sends[chats[j].chat_id] = 1

Fires(t, id) == tasks[t].op = "fire_reminder" /\ tasks[t].id = id

\* the step is one of the coroutine in slot t
StepOf(t) == tasks[t].op # "none" /\ tasks'[t] # tasks[t] /\ proc' = "running"

\* the step hands _fire_reminder(id) to the event loop
Dispatched(id) ==
    \E t \in TaskSlots : tasks[t].op = "none" /\ tasks'[t] = Task("fire_reminder", id, "get")

\* C21 (as amended): in every firing of a once reminder the callback calls
\* broadcast_message before it writes active = false, and it writes and
\* calls unschedule_reminder only after broadcast_message has returned; the
\* job itself is gone before that: the scheduler removes it when it hands
\* the callback to the event loop.
C21_DeactivateAfterDispatch ==
    /\ [][\A t \in TaskSlots : \A id \in ReminderIds :
            (Fires(t, id) /\ StepOf(t)) =>
                /\ (IsActive(reminders, id) /\ ~IsActive(reminders', id))
                      => /\ tasks[t].pc = "deact_fired"
                         /\ sent_count[id] >= 1
                /\ (tasks'[t].pc = "deact_fired" /\ tasks[t].pc # "deact_fired")
                      => tasks[t].pc = "broadcast"]_vars
    /\ [][\A id \in ReminderIds :
            (IsOnce(reminders, id) /\ Dispatched(id)) => ~HasJob(jobs', id)]_vars

\* C21 as stated: in a firing of a once reminder, neither the write of
\* active = false nor the removal of the job happens before
\* broadcast_message has returned.
C21_NothingBeforeDispatchReturns ==
    [][\A id \in ReminderIds :
          (/\ IsOnce(reminders, id)
           /\ Dispatched(id) \/ \E t \in TaskSlots : Fires(t, id) /\ StepOf(t)
           /\ \/ IsActive(reminders, id) /\ ~IsActive(reminders', id)
              \/ HasJob(jobs, id) /\ ~HasJob(jobs', id))
            => \E t \in TaskSlots :
                  Fires(t, id) /\ tasks[t].pc = "deact_fired"]_vars

\* broadcast_message has returned to the callback of a once reminder, which
\* is about to write active = false and to call unschedule_reminder
C21_Witness ==
    \E t \in TaskSlots : \E id \in ReminderIds :
        /\ Fires(t, id)
        /\ tasks[t].pc = "deact_fired"
        /\ IsOnce(reminders, id)
        /\ reminders[id].active
        /\ ~HasJob(jobs, id)
        /\ sent_count[id] = 1

\* C22 (as amended): if the process crashes after the dispatch of a once
\* reminder has started and before the reminder is marked inactive, the
\* reminder is not fired a second time after the restart: the clock is past
\* its run_at when the process is down and stays so, a once reminder whose
\* run_at has passed never gets a job again, and restoration marks it
\* inactive.
C22_InterruptedDispatchNotRepeated ==
    /\ [](\A id \in ReminderIds :
            (IsOnce(reminders, id) /\ proc = "stopped" /\ sent_count[id] >= 1)
                => reminders[id].run_at < Clock)
    /\ [][\A id \in ReminderIds :
            (IsOnce(reminders, id) /\ reminders[id].run_at < Clock) =>
                /\ now' >= now /\ (now' = now => (late => late'))
                /\ ~HasJob(jobs, id) => ~HasJob(jobs', id)]_vars
    /\ [][\A t \in TaskSlots : \A id \in ReminderIds :
            (/\ tasks[t].op = "restore_reminders"
             /\ tasks[t].pc = "deact_past"
             /\ tasks[t].id = id
             /\ StepOf(t)
             /\ id \in DOMAIN reminders)
              => ~IsActive(reminders', id) /\ ~HasJob(jobs', id)]_vars

\* C22 as stated: a started one-shot dispatch that was not marked sent is
\* dispatched again after restart and restoration: when restoration
\* registers the reminder, the reminder has its job again.
C22_InterruptedDispatchFiresAgain ==
    [][\A t \in TaskSlots : \A id \in ReminderIds :
          (/\ tasks[t].op = "restore_reminders"
           /\ tasks[t].pc = "load"
           /\ StepOf(t)
           /\ IsOnce(reminders, id)
           /\ reminders[id].active
           /\ sent_count[id] >= 1)
            => HasJob(jobs', id)]_vars

\* after the restart, restoration has found the interrupted once reminder
\* still active with its run_at passed and is about to mark it inactive
C22_Witness ==
    \E t \in TaskSlots : \E id \in ReminderIds :
        /\ tasks[t].op = "restore_reminders"
        /\ tasks[t].id = id
        /\ tasks[t].pc = "deact_past"
        /\ IsOnce(reminders, id)
        /\ reminders[id].active
        /\ sent_count[id] = 1
        /\ \A u \in TaskSlots : ~Fires(u, id)

\* C23: once every in-flight operation (restoration, Telegram toggle and
\* delete callbacks, web create, toggle and delete handlers, firings) has
\* completed, the job set is {reminder_<id> : the reminder exists and is
\* active in the store}.
\* (Rows without the time their type needs are left aside: scheduling them
\* registers nothing, which is the subject of C30.)
C23_JobsMatchStoreWhenQuiet ==
    (/\ proc = "running" /\ polling /\ Quiescent
     /\ \A id \in DOMAIN reminders :
            IF reminders[id].type = "once" THEN reminders[id].run_at # Null
            ELSE reminders[id].time_of_day # Null)
        => JobsMatchStore(reminders, jobs)

\* C24: a _fire_reminder callback whose read of the row comes after the
\* store write of a disable or a delete sends nothing for the reminder and
\* returns, whether or not the job is still registered; broadcast_message
\* is invoked for a reminder only in a step that finds it active in the store.
C24_NoSendOnceDisabled ==
    /\ [][\A t \in TaskSlots : \A id \in ReminderIds :
            (Fires(t, id) /\ tasks[t].pc = "get" /\ StepOf(t) /\ ~IsActive(reminders, id))
              => sent_count' = sent_count /\ tasks'[t] = NoTask]_vars
    /\ [][\A id \in ReminderIds :
            sent_count'[id] > sent_count[id] => IsActive(reminders, id)]_vars

\* the job of a reminder has fired between the store write of a disable and
\* the unschedule: the callback waits to read the row, the store says
\* inactive and the job is still registered
C24_Witness ==
    \E t \in TaskSlots : \E id \in ReminderIds :
        /\ Fires(t, id)
        /\ tasks[t].pc = "get"
        /\ id \in DOMAIN reminders
        /\ ~reminders[id].active
        /\ HasJob(jobs, id)
        /\ \E u \in TaskSlots : tasks[u].op = "handle_toggle_reminder" /\ tasks[u].id = id
                                  /\ tasks[u].pc = "get" /\ ~tasks[u].active

\* the step of the task in slot t calls schedule_reminder with the row r
\* for the reminder id
CallsSchedule(t, id, r) ==
    /\ Holds(t)
    /\ StepOf(t)
    /\ tasks[t].id = id
    /\ \/ /\ tasks[t].op = "handle_toggle_reminder"
          /\ tasks[t].pc = "get"
          /\ tasks[t].active
          /\ r = get_reminder(reminders, id)
       \/ /\ tasks[t].op = "handle_create_reminder"
          /\ tasks[t].pc = "get"
          /\ r = get_reminder(reminders, id)
       \/ /\ tasks[t].op = "reminders_toggle"
          /\ tasks[t].pc = "set"
          /\ tasks[t].active
          /\ r = tasks[t].r

\* the rows a call of schedule_reminder can be given
HeldRows == {get_reminder(reminders, id) : id \in ReminderIds}
               \cup {tasks[t].r : t \in TaskSlots}

\* C25: a call of schedule_reminder for a recurring reminder that already
\* has its job is one step: every state before and after it holds exactly
\* one job reminder_<id>, the jobs of the other reminders are untouched,
\* and the call does not fail.
C25_ScheduleReplacesAtomically ==
    [][\A t \in TaskSlots : \A id \in ReminderIds : \A r \in HeldRows :
          (/\ CallsSchedule(t, id, r)
           /\ r # NoRow
           /\ r.type # "once"
           /\ r.time_of_day # Null
           /\ HasJob(jobs, id))
            => /\ HasJob(jobs', id)
               /\ SameOtherJobs(jobs, jobs', id)
               /\ ~schedule_reminder(reminders, jobs, id, r, Clock).raised
               /\ tasks'[t] = NoTask]_vars

\* handle_toggle_reminder was asked to enable a recurring reminder that is
\* active and has its job; its store write is done and it is about to call
\* schedule_reminder
C25_Witness ==
    \E t \in TaskSlots : \E id \in ReminderIds :
        /\ Holds(t)
        /\ tasks[t].op = "handle_toggle_reminder"
        /\ tasks[t].id = id
        /\ tasks[t].pc = "get"
        /\ tasks[t].active
        /\ IsActive(reminders, id)
        /\ reminders[id].type # "once"
        /\ HasJob(jobs, id)
        /\ sent_count[id] >= 1

\* C26: while the process runs, with a schedule of at least one day in
\* effect before and after every refresh, no state another task or a
\* scheduler tick can observe lacks the job referral_announcements.
C26_AnnouncementJobAlwaysPresent ==
    proc = "running" => AnnouncementJob \in DOMAIN jobs

\* the sends of the run of b, in the order they were issued
SendsOf(b) ==
    LET Own(entry) == entry.run = b
    IN  SelectSeq(send_log, Own)

\* C27 (as amended): while a broadcast run is suspended in a send or in a
\* rate-limit sleep, another callback's run can issue sends, so the sends
\* of two runs can interleave; each run still sends to its own chats one
\* at a time and in their order: it starts with the first chat, goes from a
\* chat to the same chat (a retry) or to the next one, and has reached the
\* last chat when it returns.
C27_EachRunInItsOwnOrder ==
    \A b \in Broadcasters :
        LET own == SendsOf(b)
        IN  /\ runs[b].pc = "idle" <=> own = <<>>
            /\ own # <<>> => own[1].chat = 1 /\ own[Len(own)].chat = runs[b].idx
            /\ \A i \in 1..(Len(own) - 1) :
                  own[i + 1].chat \in {own[i].chat, own[i].chat + 1}
            /\ runs[b].pc = "done" => runs[b].idx = NumChats

\* C27 as stated: while one broadcast run is in progress, no other run
\* issues a send.
C27_NoSendWhileAnotherRuns ==
    [][Len(send_log') > Len(send_log) =>
          \A b \in Broadcasters \ {send_log'[Len(send_log')].run} :
              runs[b].pc \in {"idle", "done"}]_vars

\* both runs have returned and a send of one lies between two sends of the
\* other
C27_Witness ==
    /\ \A b \in Broadcasters : runs[b].pc = "done"
    /\ \E i, j, k \in 1..Len(send_log) :
          /\ i < j /\ j < k
          /\ send_log[i].run = send_log[k].run
          /\ send_log[j].run # send_log[i].run

\* C28: at every moment at most one store operation issued through
\* execute, fetchone, fetchall or insert_reminder is inside its critical
\* section, and every operation that waits for the lock eventually enters.
C28_OneStoreOperationAtATime ==
    /\ [](Cardinality(InCriticalSection) <= 1)
    /\ [](InCriticalSection # {} => db_locked)
    /\ \A c \in Callers : (db_ops[c].pc = "waiting") ~> (db_ops[c].pc = "inside")

\* one operation is inside its critical section after having waited, and
\* every other caller waits for the lock, the last to arrive being the
\* first caller
C28_Witness ==
    /\ Cardinality(InCriticalSection) = 1
    /\ Len(db_waiters) = Cardinality(Callers) - 1
    /\ db_waiters[Len(db_waiters)] = 1
    /\ \E c \in InCriticalSection : db_ops[c].waited
    /\ {db_ops[c].op : c \in Callers} \cap {"insert_reminder", "fetchone"} # {}

\* the reminder id is stored with a type other than once
IsRecurring(rows, id) == id \in DOMAIN rows /\ rows[id].type # "once"

\* C29: a firing of a daily, weekly, biweekly or twice reminder changes no
\* row of the store and leaves the reminder its one job with the same
\* trigger (and every other job as it was): after any number of firings the
\* reminder is still active and still scheduled.
C29_RecurringFiringKeepsFlagAndJob ==
    [][\A id \in ReminderIds :
          (IsRecurring(reminders, id) /\ sent_count'[id] > sent_count[id]) =>
              /\ reminders' = reminders
              /\ reminders'[id].active
              /\ HasJob(jobs, id) /\ HasJob(jobs', id)
              /\ jobs'[job_id(id)].trigger = jobs[job_id(id)].trigger
              /\ SameOtherJobs(jobs, jobs', id)]_vars

\* a recurring reminder has fired as often as the model lets it and is
\* still active with its job
C29_Witness ==
    \E id \in ReminderIds :
        /\ IsRecurring(reminders, id)
        /\ sent_count[id] = MaxSent
        /\ reminders[id].active
        /\ HasJob(jobs, id)
        /\ proc = "running"

\* the row is of a type other than once and has no time of day
LacksTime(r) == r # NoRow /\ r.type # "once" /\ r.time_of_day = Null

\* C30: schedule_reminder called for a non-once reminder whose time_of_day
\* is missing changes neither the job set nor the store and raises nothing:
\* such a reminder never has a job, so the unschedule the call begins with
\* removes nothing, and the call returns before add_job.
C30_MissingTimeIsNoOp ==
    /\ [](\A id \in ReminderIds :
            LacksTime(get_reminder(reminders, id)) => ~HasJob(jobs, id))
    /\ [][\A t \in TaskSlots : \A id \in ReminderIds : \A r \in HeldRows :
            (CallsSchedule(t, id, r) /\ LacksTime(r)) =>
                LET st == schedule_reminder(reminders', jobs, id, r, Clock)
                IN  /\ st.rows = reminders'
                    /\ st.jobs = jobs
                    /\ ~st.raised
                    /\ jobs' = jobs
                    /\ tasks'[t] = NoTask]_vars
    /\ [][\A t \in TaskSlots : \A id \in ReminderIds :
            (/\ tasks[t].op = "restore_reminders"
             /\ tasks[t].pc = "load"
             /\ StepOf(t)
             /\ IsActive(reminders, id)
             /\ LacksTime(reminders[id]))
              => /\ reminders' = reminders
                 /\ ~HasJob(jobs', id)
                 /\ SameOtherJobs(schedule_reminder(reminders, jobs', id, reminders[id], Clock).jobs,
                                  jobs', id)]_vars

\* handle_toggle_reminder was asked to enable the stored reminder without
\* a time of day and is about to call schedule_reminder with its row
C30_Witness ==
    \E t \in TaskSlots : \E id \in ReminderIds :
        /\ Holds(t)
        /\ tasks[t].op = "handle_toggle_reminder"
        /\ tasks[t].id = id
        /\ tasks[t].pc = "get"
        /\ tasks[t].active
        /\ IsActive(reminders, id)
        /\ LacksTime(reminders[id])
        /\ ~HasJob(jobs, id)
        /\ AnnouncementJob \in DOMAIN jobs

(***************************************************************************)
(* Properties over whole lifetimes.                                        *)
(***************************************************************************)
\* C31: whatever mix of RateLimited, Unknown, Forbidden and BadRequest
\* answers a chat gives, a run makes at most broadcast_retry_count physical
\* sends to it, at most one of them succeeds, and the run takes the chat up
\* only once.
C31_AttemptsBoundedOneSuccess ==
    /\ Len(resp) <= broadcast_retry_count
    /\ CountKind(resp, "ok") <= 1
    /\ Len(sent_at) = Len(resp)
    /\ b_pc \in {"send", "sleep"} => (HasChat /\ outcome[b_chat] = "none")

C31_Witness ==
    /\ HasChat
    /\ Len(resp) = broadcast_retry_count
    /\ resp[1].kind = "RetryAfter" /\ resp[2].kind = "Unknown" /\ resp[3].kind = "ok"
    /\ outcome[b_chat] = "delivered"

\* C32: over every sequence of firings, Telegram and web toggles and
\* restoration passes, a re-enable at the very instant run_at included,
\* broadcast_message is called at most once for a once reminder.
C32_OnceReminderSentAtMostOnce ==
    \A id \in DOMAIN reminders : IsOnce(reminders, id) => sent_count[id] <= 1

\* C33: any two consecutive firings of a biweekly reminder that stays
\* active are exactly 2 weeks apart, also when a restart with restoration
\* or a disable/enable toggle has registered its job anew between them.
C33_BiweeklyFiringsTwoWeeksApart ==
    \A k \in 1..(Len(occ.runs) - 1) :
        occ.runs[k + 1] - occ.runs[k] = 2 * SlotsPerWeek

\* the chat has a row in the store
KnownChat(rows, c) == \E i \in 1..Len(rows) : rows[i].chat_id = c

\* C34: no operation, upsert_chat on new activity of the chat included,
\* sets an existing chat from inactive back to active, and no chat that is
\* inactive in the store is yielded by the filter of a run: it is not among
\* the rows a run still has to visit, and the only inactive chat a run has
\* dealt with is one this run marked itself after a Forbidden answer.
C34_InactiveChatStaysInactive ==
    /\ [][\A c \in ChatIds :
            (KnownChat(chats, c) /\ ~IsActiveChat(chats, c))
                => (KnownChat(chats', c) /\ ~IsActiveChat(chats', c))]_vars
    /\ [](\A c \in ChatIds :
            (KnownChat(chats, c) /\ ~IsActiveChat(chats, c)) =>
                /\ \A i \in 1..Len(b_pending) : b_pending[i].chat_id # c
                /\ b_pc \in {"send", "sleep"} => b_chat # c
                /\ outcome[c] \in {"none", "forbidden"})

\* a chat a run marked inactive has been heard of again, and a later run
\* has gone through its chats without it
C34_Witness ==
    \E c \in ChatIds :
        /\ ~IsActiveChat(chats, c)
        /\ chats[1].chat_id = c
        /\ Len(chats) > 1
        /\ b_pc = "done"
        /\ outcome[c] = "none"
        /\ \E d \in ChatIds : outcome[d] = "delivered"

\* an update of the announcement schedule is under way
UpdateInFlight ==
    \E t \in TaskSlots : tasks[t].op = "update_announcement_schedule"

JobChanged(jbs1, jbs2, id) ==
    \/ HasJob(jbs1, id) # HasJob(jbs2, id)
    \/ HasJob(jbs1, id) /\ jbs1[job_id(id)] # jbs2[job_id(id)]

\* the job referral_announcements was added, replaced or removed
AnnouncementJobTouched(jbs1, jbs2) ==
    \/ (AnnouncementJob \in DOMAIN jbs1) # (AnnouncementJob \in DOMAIN jbs2)
    \/ AnnouncementJob \in DOMAIN jbs1 /\ jbs1[AnnouncementJob].trigger # jbs2[AnnouncementJob].trigger

\* C36: schedule_reminder, unschedule_reminder and the end of _fire_reminder
\* for the id i leave the job referral_announcements and the jobs of every
\* other reminder as they were, restore_reminders leaves the job
\* referral_announcements and the jobs of the reminders it does not
\* schedule, and _refresh_announcement_job leaves every job reminder_<id>;
\* a step of the running process changes the job of at most one reminder,
\* and never a reminder job together with the announcement job.
C36_JobsOfOthersUntouched ==
    /\ [](\A id \in ReminderIds :
            /\ SameOtherJobs(unschedule_reminder(jobs, id), jobs, id)
            /\ id \in DOMAIN reminders =>
                  /\ SameOtherJobs(
                        schedule_reminder(reminders, jobs, id, reminders[id], now).jobs,
                        jobs, id)
                  /\ SameOtherJobs(after_broadcast(reminders, jobs, id).jobs, jobs, id))
    /\ [](LET out == restore_reminders(reminders, jobs, now).jobs
          IN  /\ ~AnnouncementJobTouched(jobs, out)
              /\ \A id \in ReminderIds :
                    ~IsActive(reminders, id) => ~JobChanged(jobs, out, id))
    /\ [](\A schedule \in ScheduleUpdates \cup {announcement_settings} :
            \A id \in ReminderIds :
                ~JobChanged(jobs, refresh_announcement_job(jobs, schedule, now), id))
    /\ [][(proc = "running" /\ proc' = "running") =>
            /\ Cardinality({id \in ReminderIds : JobChanged(jobs, jobs', id)}) <= 1
            /\ (\E id \in ReminderIds : JobChanged(jobs, jobs', id))
                  => /\ announcement_settings' = announcement_settings
                     /\ AnnouncementJob \in DOMAIN jobs
                     /\ AnnouncementJob \in DOMAIN jobs'
                     /\ jobs'[AnnouncementJob] = jobs[AnnouncementJob]
            /\ AnnouncementJobTouched(jobs, jobs')
                  => announcement_settings' # announcement_settings]_vars

\* two reminders have their jobs, the announcement job has been replaced
\* by an update of the schedule, and one of the reminders has fired since
C36_Witness ==
    /\ proc = "running"
    /\ announcement_settings # NoSchedule
    /\ AnnouncementJob \in DOMAIN jobs
    /\ jobs[AnnouncementJob].trigger =
          CronTrigger(SeqToSet(announcement_settings.days), announcement_settings.time_of_day)
    /\ \E id, other \in DOMAIN reminders :
          /\ id # other
          /\ HasJob(jobs, id) /\ HasJob(jobs, other)
          /\ sent_count[id] > 0

====
